---- MODULE Spec2Model ----
(***************************************************************************)
(* A model of the browser automation server (src/mcp_server.py): the       *)
(* BrowserSession singleton, the tool functions wrapped around it, and the *)
(* rendering back end they drive.  Every `await` of the source is a        *)
(* suspension point: an action of the model is the completion of one       *)
(* awaited primitive followed by the synchronous code up to the next       *)
(* await (or to the return of the tool function).                          *)
(***************************************************************************)
EXTENDS Integers, Sequences, FiniteSets, TLC

\* ------------------------------------------------------------------ bounds

\* Tool calls that may be in flight at once under ConcSpec.
NumTasks == 2
\* Browser and page handles the back end can hand out before they are reused.
MaxBrowsers == 2
MaxPages == 2

Tasks == 1..NumTasks
BrowserIds == 1..MaxBrowsers
PageIds == 1..MaxPages

None == "None"
\* The values of a BrowserSession field (or a local) that holds no handle.
NoBrowser == 0
NoPage == [id |-> 0, owner |-> 0]
NoHandle == [page |-> 0, el |-> ""]
NoCheck == [isdict |-> FALSE, ok |-> FALSE, editable |-> FALSE, reason |-> ""]
\* The handle start passes to browser.new_page(), stop to browser.close().
BrowserTarget(b) == [id |-> 0, owner |-> b]

\* ------------------------------------------------------------ input sets

\* "#a" is the id locator of the one element a document may hold, "#zz" an
\* id no document holds, the has-text locator is what MCPGetSelector
\* synthesizes for an element without id, class or name, and "a[[" is a
\* string no selector engine parses.
HasText == "div:has-text(\"Go\")"
Malformed == "a[["
Selectors == {"#a", "#zz", HasText, Malformed}
\* Values to fill in: a word, the empty string, and one of the strings a
\* caller uses to tick a checkbox.
Values == {"hello", "", "yes"}
Urls == {"http://x"}
\* An expression without effect, and the event dispatch the interactive
\* client sends for a locator (src/minimal_client.py, lines 81-105).
DispatchJs == "dispatch pointerdown, mousedown, pointerup, mouseup, click"
Expressions == {"document.title", DispatchJs}
Paths == {"screenshot.png"}

\* Messages of the exceptions a call can meet.
NotStartedMsg == "Browser not started. Call start_browser first."
NoPageAttr == "'NoneType' object has no attribute"
TimeoutMsg == "Timeout exceeded"
\* page.fill on an element that is no text input, textarea or
\* contenteditable element.
CannotFillMsg == "Element cannot be filled"
ClosedMsg == "Target closed"
SyntaxMsg == "SyntaxError: not a valid selector"
\* In-page code calls window.MCPIsVisible / MCPIsClickable on a page whose
\* init script was never added.
ScriptMissingMsg == "TypeError: window.MCPIsClickable is not a function"
BackendErrs == {TimeoutMsg}

\* ------------------------------------------------------------- documents

\* One element of a document, as the facts the in-page checks read: its tag,
\* its input type, contentEditable, a bounding box of positive size, a
\* computed style that is neither hidden, display:none nor opacity 0, a box
\* that intersects the viewport, being the top element at its centre, a
\* click handler or a clickable role or class, disabled/readOnly, its value
\* and its text content.  The attributes the locator synthesizer reads (id,
\* the first data-* key and its value, the class list, name, href) start
\* out absent, and so do the `required` attribute and the enclosing form
\* (`formName` is the form's name or, without one, its id).
Elem(tag, type, edit, box, shown, inView, onTop, handler, dis, v, txt) ==
    [tag |-> tag, type |-> type, editable |-> edit, box |-> box, shown |-> shown,
     inView |-> inView, onTop |-> onTop, handler |-> handler, disabled |-> dis,
     value |-> v, text |-> txt,
     id |-> "", dataKey |-> "", dataVal |-> "", classes |-> <<>>, name |-> "",
     href |-> "", required |-> FALSE, inForm |-> FALSE, formName |-> ""]

\* The element `el` with the attributes the synthesizer reads.
Rich(el, id, dataKey, dataVal, classes, name, href) ==
    [el EXCEPT !.id = id, !.dataKey = dataKey, !.dataVal = dataVal,
               !.classes = classes, !.name = name, !.href = href]

\* The element `el` inside a form of that name (or id), "" for a form that
\* has neither.
InForm(el, name) == [el EXCEPT !.inForm = TRUE, !.formName = name]

\* The element `el` with the `required` attribute.
Required(el) == [el EXCEPT !.required = TRUE]

NoElem == Elem(None, "", FALSE, FALSE, FALSE, FALSE, FALSE, FALSE, FALSE, "", "")

\* A document holds at most two elements: `a`, whose id is "a", and `go`,
\* which has no id, class or name and the text "Go".
Doc(a, go) == [a |-> IF a.tag = None THEN a ELSE [a EXCEPT !.id = "a"], go |-> go]

BlankDoc == Doc(NoElem, NoElem)

Docs ==
    { BlankDoc,
      \* a button in the viewport
      Doc(Elem("button", "submit", FALSE, TRUE, TRUE, TRUE, TRUE, FALSE, FALSE, "", "OK"),
          NoElem),
      \* a text input below the fold: scrolling brings it into view
      Doc(Elem("input", "text", FALSE, TRUE, TRUE, FALSE, TRUE, FALSE, FALSE, "old", ""),
          NoElem),
      \* a display:none anchor: scrolling does not help
      Doc(Elem("a", "", FALSE, FALSE, FALSE, TRUE, FALSE, FALSE, FALSE, "", "more"),
          NoElem),
      \* a checkbox in the viewport
      Doc(Elem("input", "checkbox", FALSE, TRUE, TRUE, TRUE, TRUE, FALSE, FALSE, "on", ""),
          NoElem),
      \* a textarea with initial content: its textContent stays "old"
      \* whatever its value becomes
      Doc(Elem("textarea", "textarea", FALSE, TRUE, TRUE, TRUE, TRUE, FALSE, FALSE, "old", "old"),
          NoElem),
      \* a colour picker in the viewport
      Doc(Elem("input", "color", FALSE, TRUE, TRUE, TRUE, TRUE, FALSE, FALSE, "#ff0000", ""),
          NoElem),
      \* a contenteditable div
      Doc(Elem("div", "", TRUE, TRUE, TRUE, TRUE, TRUE, FALSE, FALSE, "", "draft"),
          NoElem),
      \* a plain div in view, and a div with a click handler that only its
      \* text identifies
      Doc(Elem("div", "", FALSE, TRUE, TRUE, TRUE, TRUE, FALSE, FALSE, "", "note"),
          Elem("div", "", FALSE, TRUE, TRUE, TRUE, TRUE, TRUE, FALSE, "", "Go")) }

\* What a locator resolves to: the name of the element, "" for no element,
\* "!" when the string cannot be parsed.
Present(d, n) == IF n = "a" THEN d.a.tag # None ELSE d.go.tag # None
At(d, n) == IF n = "a" THEN d.a ELSE d.go

\* The back end's selector engine (page.query_selector, page.click,
\* page.fill): CSS plus the engine's own :has-text().
Resolve(sel, d) ==
    CASE sel = Malformed -> "!"
      [] sel = "#a" -> IF Present(d, "a") THEN "a" ELSE ""
      [] sel = HasText -> IF Present(d, "go") THEN "go" ELSE ""
      [] OTHER -> ""

\* document.querySelector inside the page: CSS only, :has-text() is a
\* syntax error there.
QuerySelector(sel, d) ==
    CASE sel \in {Malformed, HasText} -> "!"
      [] sel = "#a" -> IF Present(d, "a") THEN "a" ELSE ""
      [] OTHER -> ""

\* window.MCPIsVisible.
MCPIsVisible(el) == el.box /\ el.shown /\ el.inView /\ el.onTop

ClickableTags == {"a", "button", "input", "select", "textarea"}

\* window.MCPIsClickable.
MCPIsClickable(el) ==
    MCPIsVisible(el) /\ (el.tag \in ClickableTags \/ el.handler)

\* The document with element `n` replaced by `el`.
WithElem(d, n, el) == IF n = "a" THEN [d EXCEPT !.a = el] ELSE [d EXCEPT !.go = el]

VARIABLES
    playwright,   \* BrowserSession.playwright: None or the engine handle
    browser,      \* BrowserSession.browser: None or a browser id
    page,         \* BrowserSession.page: None or a page handle [id, owner]
    live,         \* back end: the browsers launched and not closed
    open,         \* back end: the page handles created and not closed
    scripts,      \* back end: page id -> number of init scripts installed
    dom,          \* back end: the document of the session's page
    call          \* per task: the tool call in flight

vars == <<playwright, browser, page, live, open, scripts, dom, call>>

session == <<playwright, browser, page>>
world == <<live, open, scripts, dom>>

PW == "playwright"

\* ---------------------------------------------------------- tool results

NoRes == [kind |-> "none", text |-> <<>>]
\* A returned string, as the fragments its f-string joins.
Str(frags) == [kind |-> "str", text |-> frags]
\* An exception that leaves the tool function.
Raised(msg) == [kind |-> "raise", text |-> <<msg>>]
\* A returned dict: the keys it has, its "elements" list, its "count" and the
\* fragments of its "error" string.
Dict(keys, elements, count, error) ==
    [kind |-> "dict", text |-> error, keys |-> keys, elements |-> elements,
     count |-> count]

IdleCall ==
    \* op: the tool; pc: the awaited primitive; sel: the first argument (locator
    \* or url); val: the second; elem, chk, exc: the locals element,
    \* is_clickable/is_fillable and e; tgt: the handle the awaited primitive
    \* was issued on; res: the result; trace: the primitives completed so far;
    \* old: the content of the target when the call began (a history field,
    \* the code keeps no such value).
    [op |-> "none", pc |-> "idle", sel |-> "", val |-> "", elem |-> NoHandle,
     chk |-> NoCheck, exc |-> "", tgt |-> NoPage, res |-> NoRes, trace |-> <<>>,
     old |-> <<"", "">>]

\* The call record after the tool function has returned `r`.
Finish(c, r) == [c EXCEPT !.pc = "done", !.res = r]

\* The call record once primitive `name` has completed with outcome `ok`.
Log(c, name, ok) == [c EXCEPT !.trace = Append(@, <<name, ok>>)]

Set(t, c) == call' = [call EXCEPT ![t] = c]

InFlight(t) == call[t].pc \notin {"idle", "done"}

\* The page a primitive was issued on is still open.
TargetOpen(c) == c.tgt \in open

\* The handles the back end can hand out: those nothing refers to any more.
FreeBrowsers == BrowserIds \ (live \cup {browser})
FreePages ==
    PageIds \ ({p.id : p \in open} \cup {page.id} \cup {call[t].tgt.id : t \in Tasks}
               \cup {call[t].elem.page : t \in Tasks})

Init ==
    /\ playwright = None
    /\ browser = NoBrowser
    /\ page = NoPage
    /\ live = {}
    /\ open = {}
    /\ scripts = [p \in PageIds |-> 0]
    /\ dom = BlankDoc
    /\ call = [t \in Tasks |-> IdleCall]

\* ------------------------------------------------- BrowserSession.start

\* start_browser's except clause.
StartError(c, msg) == Finish(c, Str(<<"Error starting browser: ", msg>>))

\* Line 31: `if self.page is None` and what follows it.
StartPageStep(c, br, pg) ==
    IF pg = NoPage
    THEN [c EXCEPT !.pc = "start.newpage", !.tgt = BrowserTarget(br)]
    ELSE Finish(c, Str(<<"Browser started.">>))

NeedsLaunchAlways(br) == TRUE

\* Line 19: `if self.browser is None`.
NeedsLaunch(br) == br = NoBrowser

\* Lines 19-31 after the engine step.
StartBrowserStep(c, pw, br, pg) ==
    IF NeedsLaunch(br)
    THEN IF pw = None
         THEN StartError(c, NoPageAttr)
         ELSE [c EXCEPT !.pc = "start.launch"]
    ELSE StartPageStep(c, br, pg)

\* start_browser is called: lines 17-18.
StartBegin(t) ==
    /\ call[t].pc = "idle"
    /\ LET c == [IdleCall EXCEPT !.op = "start"] IN
       Set(t, IF playwright = None
              THEN [c EXCEPT !.pc = "start.engine"]
              ELSE StartBrowserStep(c, playwright, browser, page))
    /\ UNCHANGED <<session, world>>

\* async_playwright().start() completes.
StartEngine(t) ==
    /\ call[t].pc = "start.engine"
    /\ \/ /\ playwright' = PW
          /\ Set(t, StartBrowserStep(Log(call[t], "engine", TRUE), PW, browser, page))
       \/ /\ \E e \in BackendErrs : Set(t, StartError(Log(call[t], "engine", FALSE), e))
          /\ UNCHANGED playwright
    /\ UNCHANGED <<browser, page, world>>

\* chromium.launch() completes: the new browser is stored in self.browser.
StartLaunch(t) ==
    /\ call[t].pc = "start.launch"
    /\ \/ /\ FreeBrowsers # {}
          /\ LET b == CHOOSE x \in FreeBrowsers : \A y \in FreeBrowsers : x <= y IN
             /\ live' = live \cup {b}
             /\ browser' = b
             /\ Set(t, StartPageStep(Log(call[t], "launch", TRUE), b, page))
       \/ /\ \E e \in BackendErrs : Set(t, StartError(Log(call[t], "launch", FALSE), e))
          /\ UNCHANGED <<browser, live>>
    /\ UNCHANGED <<playwright, page, open, scripts, dom>>

\* browser.new_page() completes: the page is stored in self.page and
\* set_extra_http_headers is issued on it.
StartNewPage(t) ==
    /\ call[t].pc = "start.newpage"
    /\ \/ /\ call[t].tgt.owner \in live
          /\ FreePages # {}
          /\ LET i == CHOOSE x \in FreePages : \A y \in FreePages : x <= y
                 p == [id |-> i, owner |-> call[t].tgt.owner] IN
             /\ open' = open \cup {p}
             /\ scripts' = [scripts EXCEPT ![i] = 0]
             /\ page' = p
             /\ dom' = BlankDoc
             /\ Set(t, [Log(call[t], "new_page", TRUE) EXCEPT !.pc = "start.headers", !.tgt = p])
       \/ /\ \E e \in BackendErrs \cup (IF call[t].tgt.owner \in live THEN {} ELSE {ClosedMsg}) :
                Set(t, StartError(Log(call[t], "new_page", FALSE), e))
          /\ UNCHANGED <<page, open, scripts, dom>>
    /\ UNCHANGED <<playwright, browser, live>>

\* set_extra_http_headers completes; add_init_script is issued on self.page.
StartHeaders(t) ==
    /\ call[t].pc = "start.headers"
    /\ \/ /\ TargetOpen(call[t])
          /\ Set(t, LET c == Log(call[t], "headers", TRUE) IN
                    IF page = NoPage
                    THEN StartError(c, NoPageAttr)
                    ELSE [c EXCEPT !.pc = "start.script", !.tgt = page])
       \/ \E e \in BackendErrs \cup (IF TargetOpen(call[t]) THEN {} ELSE {ClosedMsg}) :
             Set(t, StartError(Log(call[t], "headers", FALSE), e))
    /\ UNCHANGED <<session, world>>

\* add_init_script completes: MCPGetSelector, MCPIsVisible and
\* MCPIsClickable are installed on the page.
StartScript(t) ==
    /\ call[t].pc = "start.script"
    /\ \/ /\ TargetOpen(call[t])
          /\ scripts' = [scripts EXCEPT ![call[t].tgt.id] = @ + 1]
          /\ Set(t, Finish(Log(call[t], "init_script", TRUE), Str(<<"Browser started.">>)))
       \/ /\ \E e \in BackendErrs \cup (IF TargetOpen(call[t]) THEN {} ELSE {ClosedMsg}) :
                Set(t, StartError(Log(call[t], "init_script", FALSE), e))
          /\ UNCHANGED scripts
    /\ UNCHANGED <<session, live, open, dom>>

\* -------------------------------------------------- BrowserSession.stop

StopError(c, msg) == Finish(c, Str(<<"Error stopping browser: ", msg>>))

\* Lines 162-165.
StopEngineStep(c, pw) ==
    IF pw # None
    THEN [c EXCEPT !.pc = "stop.engine"]
    ELSE Finish(c, Str(<<"Browser stopped.">>))

StopBrowserStepSkips(c, pw, br) == StopEngineStep(c, pw)

\* Lines 159-165.
StopBrowserStep(c, pw, br) ==
    IF br # NoBrowser
    THEN [c EXCEPT !.pc = "stop.browser", !.tgt = BrowserTarget(br)]
    ELSE StopEngineStep(c, pw)

\* stop_browser is called: line 156.
StopBegin(t) ==
    /\ call[t].pc = "idle"
    /\ LET c == [IdleCall EXCEPT !.op = "stop"] IN
       Set(t, IF page # NoPage
              THEN [c EXCEPT !.pc = "stop.page", !.tgt = page]
              ELSE StopBrowserStep(c, playwright, browser))
    /\ UNCHANGED <<session, world>>

\* page.close() completes: line 158 clears self.page.
StopPage(t) ==
    /\ call[t].pc = "stop.page"
    /\ \/ /\ open' = open \ {call[t].tgt}
          /\ page' = NoPage
          /\ Set(t, StopBrowserStep(Log(call[t], "page.close", TRUE), playwright, browser))
       \/ /\ \E e \in BackendErrs : Set(t, StopError(Log(call[t], "page.close", FALSE), e))
          /\ UNCHANGED <<page, open>>
    /\ UNCHANGED <<playwright, browser, live, scripts, dom>>

\* browser.close() completes (it closes the browser's pages too): line 161
\* clears self.browser.
StopBrowser(t) ==
    /\ call[t].pc = "stop.browser"
    /\ \/ /\ live' = live \ {call[t].tgt.owner}
          /\ open' = {p \in open : p.owner # call[t].tgt.owner}
          /\ browser' = NoBrowser
          /\ Set(t, StopEngineStep(Log(call[t], "browser.close", TRUE), playwright))
       \/ /\ \E e \in BackendErrs : Set(t, StopError(Log(call[t], "browser.close", FALSE), e))
          /\ UNCHANGED <<browser, live, open>>
    /\ UNCHANGED <<playwright, page, scripts, dom>>

\* playwright.stop() completes (the engine takes its browsers down with
\* it): line 164 clears self.playwright.
StopEngine(t) ==
    /\ call[t].pc = "stop.engine"
    /\ \/ /\ playwright' = None
          /\ live' = {}
          /\ open' = {}
          /\ Set(t, Finish(Log(call[t], "engine.stop", TRUE), Str(<<"Browser stopped.">>)))
       \/ /\ \E e \in BackendErrs : Set(t, StopError(Log(call[t], "engine.stop", FALSE), e))
          /\ UNCHANGED <<playwright, live, open>>
    /\ UNCHANGED <<browser, page, scripts, dom>>

\* ------------------------------------------------- BrowserSession.click

ClickErrorText(sel, msg) == Str(<<"Error clicking ", sel, ": ", msg>>)
NotFoundText(sel) == Str(<<"Element not found: ", sel>>)
ClickedText(sel) == Str(<<"Clicked on ", sel>>)
ForceReportedAsClicked(sel) == ClickedText(sel)

\* Line 258.
ForceClickedText(sel) ==
    Str(<<"Force-clicked on ", sel, " (element might not have been fully visible)">>)
NotClickableText(sel, reason) == Str(<<"Element not clickable: ", sel, " - ", reason>>)

\* The back end fails a primitive issued on the page `c.tgt`: always
\* possible with a back-end error, and certain once the page is closed.
Failures(c) == BackendErrs \cup (IF TargetOpen(c) THEN {} ELSE {ClosedMsg})

ForceFailedRetries(c) == [c EXCEPT !.pc = "click.force"]

\* Lines 259-261: the force click raised too; the first error is reported.
ForceFailed(c) == Finish(c, ClickErrorText(c.sel, c.exc))

ClickFailedRaises(c, pg, msg) ==
    IF pg = NoPage
    THEN Finish(c, Raised(NoPageAttr))
    ELSE [c EXCEPT !.exc = msg, !.pc = "click.force", !.tgt = pg]

GiveUpOnError(c, pg, msg) == Finish(c, ClickErrorText(c.sel, msg))

\* Lines 252-257: an exception in the try block; the force click is issued
\* on self.page (an AttributeError when it is None, caught by line 259).
ClickFailed(c, pg, msg) ==
    IF pg = NoPage
    THEN ForceFailed([c EXCEPT !.exc = msg])
    ELSE [c EXCEPT !.exc = msg, !.pc = "click.force", !.tgt = pg]

\* A primitive of the try block is issued on self.page.
ClickIssue(c, pg, next) ==
    IF pg = NoPage
    THEN ClickFailed(c, pg, NoPageAttr)
    ELSE [c EXCEPT !.pc = next, !.tgt = pg]

ElementMissingNever(h) == FALSE

\* Line 202: `if not element`.
ElementMissing(h) == h = NoHandle

\* click_element is called: lines 194-201, and the except clause of
\* click_element for the RuntimeError of line 195.
ClickBegin(t) ==
    /\ call[t].pc = "idle"
    /\ \E s \in Selectors :
          LET c == [IdleCall EXCEPT !.op = "click", !.sel = s] IN
          Set(t, IF page = NoPage
                 THEN Finish(c, ClickErrorText(s, NotStartedMsg))
                 ELSE [c EXCEPT !.pc = "click.query", !.tgt = page])
    /\ UNCHANGED <<session, world>>

\* page.query_selector completes: lines 201-225.
ClickQuery(t) ==
    /\ call[t].pc = "click.query"
    /\ LET c == call[t]
           r == Resolve(c.sel, dom) IN
       \/ /\ TargetOpen(c) /\ r # "!"
          /\ LET h == IF r = "" THEN NoHandle ELSE [page |-> c.tgt.id, el |-> r]
                 d == [Log(c, "query_selector", TRUE) EXCEPT !.elem = h] IN
             Set(t, IF ElementMissing(h)
                    THEN Finish(d, NotFoundText(c.sel))
                    ELSE ClickIssue(d, page, "click.check"))
       \/ \E e \in Failures(c) \cup (IF r = "!" THEN {SyntaxMsg} ELSE {}) :
             Set(t, ClickFailed(Log(c, "query_selector", FALSE), page, e))
    /\ UNCHANGED <<session, world>>

\* Lines 209-225: the object the in-page check returns.
CheckClickable(sel, d) ==
    LET n == QuerySelector(sel, d) IN
    IF n = ""
    THEN [isdict |-> TRUE, ok |-> FALSE, editable |-> FALSE,
          reason |-> "Element not found"]
    ELSE LET el == At(d, n) IN
         [isdict |-> TRUE, ok |-> MCPIsClickable(el), editable |-> FALSE,
          reason |-> IF ~MCPIsVisible(el) THEN "Not visible"
                     ELSE IF ~MCPIsClickable(el) THEN "Not clickable" ELSE "OK"]

\* The errors the in-page clickability checks raise by themselves: a
\* locator document.querySelector cannot parse, or an element found on a
\* page that lacks the classifier (lines 214-215 and 239).
CheckRaises(c) ==
    LET n == QuerySelector(c.sel, dom) IN
    IF n = "!" THEN {SyntaxMsg}
    ELSE IF n # "" /\ scripts[c.tgt.id] = 0 THEN {ScriptMissingMsg}
    ELSE {}

\* Lines 236-241: the boolean the second in-page check returns.
RecheckClickable(sel, d) ==
    LET n == QuerySelector(sel, d) IN
    [isdict |-> FALSE, ok |-> (n # "" /\ MCPIsClickable(At(d, n))),
     editable |-> FALSE, reason |-> ""]

ForceWhenNotClickable(c, pg) == ClickFailed(c, pg, "Not clickable")

\* Lines 248-250: the element is not clickable.
NotClickable(c, pg) ==
    Finish(c, NotClickableText(c.sel, IF c.chk.isdict THEN c.chk.reason
                                      ELSE "Not clickable"))

ClickOrCheckAgain(c, pg) ==
    IF c.chk.ok THEN ClickIssue(c, pg, "click.click") ELSE [c EXCEPT !.pc = "click.check"]

\* Line 243 and what it leads to.
ClickOrReport(c, pg) ==
    IF c.chk.ok
    THEN ClickIssue(c, pg, "click.click")
    ELSE NotClickable(c, pg)

\* The first page.evaluate completes: lines 225-232 or 243-246.
ClickCheck(t) ==
    /\ call[t].pc = "click.check"
    /\ LET c == call[t] IN
       \/ /\ TargetOpen(c) /\ CheckRaises(c) = {}
          /\ LET d == [Log(c, "check", TRUE) EXCEPT !.chk = CheckClickable(c.sel, dom)] IN
             Set(t, IF ~d.chk.ok
                    THEN [d EXCEPT !.pc = "click.scroll"]
                    ELSE ClickOrReport(d, page))
       \/ \E e \in Failures(c) \cup CheckRaises(c) :
             Set(t, ClickFailed(Log(c, "check", FALSE), page, e))
    /\ UNCHANGED <<session, world>>

\* The document after the element `h` was scrolled into view.
Scrolled(d, h) ==
    IF h.el # "" /\ Present(d, h.el)
    THEN WithElem(d, h.el, [At(d, h.el) EXCEPT !.inView = TRUE])
    ELSE d

\* element.scroll_into_view_if_needed completes: lines 232-233.
ClickScroll(t) ==
    /\ call[t].pc = "click.scroll"
    /\ LET c == call[t] IN
       \/ /\ c.elem.page \in {p.id : p \in open}
          /\ Present(dom, c.elem.el)
          /\ dom' = Scrolled(dom, c.elem)
          /\ Set(t, ClickIssue(Log(c, "scroll", TRUE), page, "click.wait"))
       \/ /\ \E e \in Failures(c) : Set(t, ClickFailed(Log(c, "scroll", FALSE), page, e))
          /\ UNCHANGED dom
    /\ UNCHANGED <<session, live, open, scripts>>

\* page.wait_for_timeout(500) completes: lines 233-236.
ClickWait(t) ==
    /\ call[t].pc = "click.wait"
    /\ LET c == call[t] IN
       \/ /\ TargetOpen(c)
          /\ Set(t, ClickIssue(Log(c, "wait", TRUE), page, "click.recheck"))
       \/ \E e \in Failures(c) : Set(t, ClickFailed(Log(c, "wait", FALSE), page, e))
    /\ UNCHANGED <<session, world>>

\* The second page.evaluate completes: lines 241-250.
ClickRecheck(t) ==
    /\ call[t].pc = "click.recheck"
    /\ LET c == call[t] IN
       \/ /\ TargetOpen(c) /\ CheckRaises(c) = {}
          /\ Set(t, ClickOrReport([Log(c, "recheck", TRUE) EXCEPT
                                      !.chk = RecheckClickable(c.sel, dom)], page))
       \/ \E e \in Failures(c) \cup CheckRaises(c) :
             Set(t, ClickFailed(Log(c, "recheck", FALSE), page, e))
    /\ UNCHANGED <<session, world>>

\* The locator resolves to an element the back end can click.
CanClick(c) == TargetOpen(c) /\ Resolve(c.sel, dom) \notin {"", "!"}

\* page.click(selector, timeout=10000) completes: lines 246-247.
ClickDirect(t) ==
    /\ call[t].pc = "click.click"
    /\ LET c == call[t] IN
       \/ /\ CanClick(c)
          /\ Set(t, Finish(Log(c, "click", TRUE), ClickedText(c.sel)))
       \/ \E e \in Failures(c) : Set(t, ClickFailed(Log(c, "click", FALSE), page, e))
    /\ UNCHANGED <<session, world>>

\* page.click(selector, force=True, timeout=5000) completes: lines 257-261.
ClickForce(t) ==
    /\ call[t].pc = "click.force"
    /\ LET c == call[t] IN
       \/ /\ CanClick(c)
          /\ Set(t, Finish(Log(c, "force_click", TRUE), ForceClickedText(c.sel)))
       \/ \E e \in Failures(c) : Set(t, ForceFailed(Log(c, "force_click", FALSE)))
    /\ UNCHANGED <<session, world>>

Click(t) ==
    \/ ClickBegin(t) \/ ClickQuery(t) \/ ClickCheck(t) \/ ClickScroll(t)
    \/ ClickWait(t) \/ ClickRecheck(t) \/ ClickDirect(t) \/ ClickForce(t)

\* -------------------------------------------------- BrowserSession.goto

NavigatedText(url) == Str(<<"Navigated to ", url>>)
NavWarningText(msg) == Str(<<"Navigation completed with warnings: ", msg>>)

\* Lines 190-191.
GotoWarn(c, msg) == Finish(c, NavWarningText(msg))

GotoIssue(c, pg, next) ==
    IF pg = NoPage THEN GotoWarn(c, NoPageAttr) ELSE [c EXCEPT !.pc = next, !.tgt = pg]

\* navigate_to is called: lines 168-173, and navigate_to's except clause.
GotoBegin(t) ==
    /\ call[t].pc = "idle"
    /\ \E u \in Urls :
          LET c == [IdleCall EXCEPT !.op = "goto", !.sel = u] IN
          Set(t, IF page = NoPage
                 THEN Finish(c, Str(<<"Error navigating to ", u, ": ", NotStartedMsg>>))
                 ELSE [c EXCEPT !.pc = "goto.load", !.tgt = page])
    /\ UNCHANGED <<session, world>>

\* page.goto(url, wait_until='domcontentloaded') completes: a document is
\* loaded; lines 173-176.
GotoLoad(t) ==
    /\ call[t].pc = "goto.load"
    /\ LET c == call[t] IN
       \/ /\ TargetOpen(c)
          /\ dom' \in Docs
          /\ Set(t, GotoIssue(Log(c, "goto", TRUE), page, "goto.settle"))
       \/ /\ \E e \in Failures(c) : Set(t, GotoWarn(Log(c, "goto", FALSE), e))
          /\ UNCHANGED dom
    /\ UNCHANGED <<session, live, open, scripts>>

\* page.wait_for_timeout(2000) completes: lines 176-180.
GotoSettle(t) ==
    /\ call[t].pc = "goto.settle"
    /\ LET c == call[t] IN
       \/ /\ TargetOpen(c)
          /\ Set(t, GotoIssue(Log(c, "wait", TRUE), page, "goto.idle"))
       \/ \E e \in Failures(c) : Set(t, GotoWarn(Log(c, "wait", FALSE), e))
    /\ UNCHANGED <<session, world>>

IdleFailedWarns(c, pg) == GotoWarn(c, TimeoutMsg)

\* Lines 181-182: `except Exception: pass`, the call goes on to line 185.
IdleFailed(c, pg) == GotoIssue(c, pg, "goto.down")

\* page.wait_for_load_state('networkidle') completes or fails: lines
\* 180-185, the failure is swallowed.
GotoIdle(t) ==
    /\ call[t].pc = "goto.idle"
    /\ LET c == call[t] IN
       \/ /\ TargetOpen(c)
          /\ Set(t, GotoIssue(Log(c, "networkidle", TRUE), page, "goto.down"))
       \/ /\ Failures(c) # {}
          /\ Set(t, IdleFailed(Log(c, "networkidle", FALSE), page))
    /\ UNCHANGED <<session, world>>

\* page.evaluate("window.scrollTo(0, 100)") completes: lines 185-186.
GotoDown(t) ==
    /\ call[t].pc = "goto.down"
    /\ LET c == call[t] IN
       \/ /\ TargetOpen(c)
          /\ Set(t, GotoIssue(Log(c, "scroll_down", TRUE), page, "goto.pause"))
       \/ \E e \in Failures(c) : Set(t, GotoWarn(Log(c, "scroll_down", FALSE), e))
    /\ UNCHANGED <<session, world>>

\* page.wait_for_timeout(1000) completes: lines 186-187.
GotoPause(t) ==
    /\ call[t].pc = "goto.pause"
    /\ LET c == call[t] IN
       \/ /\ TargetOpen(c)
          /\ Set(t, GotoIssue(Log(c, "wait", TRUE), page, "goto.top"))
       \/ \E e \in Failures(c) : Set(t, GotoWarn(Log(c, "wait", FALSE), e))
    /\ UNCHANGED <<session, world>>

\* page.evaluate("window.scrollTo(0, 0)") completes (the viewport is back
\* where the load left it): lines 187-189.
GotoTop(t) ==
    /\ call[t].pc = "goto.top"
    /\ LET c == call[t] IN
       \/ /\ TargetOpen(c)
          /\ Set(t, Finish(Log(c, "scroll_top", TRUE), NavigatedText(c.sel)))
       \/ \E e \in Failures(c) : Set(t, GotoWarn(Log(c, "scroll_top", FALSE), e))
    /\ UNCHANGED <<session, world>>

Goto(t) ==
    \/ GotoBegin(t) \/ GotoLoad(t) \/ GotoSettle(t) \/ GotoIdle(t)
    \/ GotoDown(t) \/ GotoPause(t) \/ GotoTop(t)

\* ----------------------------------------- BrowserSession.fill_enhanced

FillErrorText(sel, msg) == Str(<<"Error filling ", sel, ": ", msg>>)
NotFillableText(sel, reason) == Str(<<"Element not fillable: ", sel, " - ", reason>>)
FilledText(sel, v) == Str(<<"Successfully filled ", sel, " with '", v, "'">>)
MismatchAsError(sel, v, got) == Str(<<"Error filling ", sel, ": ", got>>)

\* Line 420.
MismatchText(sel, v, got) ==
    Str(<<"Filled ", sel, " but value verification failed. Expected: '", v,
          "', Got: '", got, "'">>)

\* Lines 422-424, and fill_form's except clause.
FillError(c, msg) == Finish(c, FillErrorText(c.sel, msg))

FillIssue(c, pg, next) ==
    IF pg = NoPage THEN FillError(c, NoPageAttr) ELSE [c EXCEPT !.pc = next, !.tgt = pg]

\* Lines 326-327.
FillableTypes ==
    {"text", "email", "password", "search", "tel", "url", "number", "date",
     "time", "datetime-local", "month", "week"}

\* Lines 319-323: the visibility test of the fill check.
FillVisible(el) == el.box /\ el.shown

\* Lines 328-330.
IsFillable(el) ==
    (el.tag = "input" /\ el.type \in FillableTypes) \/ el.tag = "textarea" \/ el.editable

\* Lines 309-347: the object the in-page fill check returns.
CheckFillable(sel, d) ==
    LET n == QuerySelector(sel, d) IN
    IF n = ""
    THEN [isdict |-> TRUE, ok |-> FALSE, editable |-> FALSE, reason |-> "Element not found"]
    ELSE LET el == At(d, n) IN
         [isdict |-> TRUE,
          ok |-> FillVisible(el) /\ IsFillable(el) /\ ~el.disabled,
          editable |-> el.editable,
          reason |-> IF ~FillVisible(el) THEN "Not visible"
                     ELSE IF ~IsFillable(el) THEN "Not fillable element"
                     ELSE IF el.disabled THEN "Disabled or readonly" ELSE "OK"]

\* Lines 358-370: the boolean the second fill check returns.
RecheckFillable(sel, d) ==
    LET n == QuerySelector(sel, d) IN
    n # "" /\ FillVisible(At(d, n)) /\ ~At(d, n).disabled

\* The value and the text of the element the locator selects.
Held(sel, d) ==
    LET n == Resolve(sel, d) IN
    IF n \in {"", "!"} THEN <<"", "">> ELSE <<At(d, n).value, At(d, n).text>>

\* fill_form is called: lines 296-303, and fill_form's except clause.
FillBegin(t) ==
    /\ call[t].pc = "idle"
    /\ \E s \in Selectors, v \in Values :
          LET c == [IdleCall EXCEPT !.op = "fill", !.sel = s, !.val = v,
                                    !.old = Held(s, dom)] IN
          Set(t, IF page = NoPage
                 THEN Finish(c, FillErrorText(s, NotStartedMsg))
                 ELSE [c EXCEPT !.pc = "fill.query", !.tgt = page])
    /\ UNCHANGED <<session, world>>

\* page.query_selector completes: lines 303-347.
FillQuery(t) ==
    /\ call[t].pc = "fill.query"
    /\ LET c == call[t]
           r == Resolve(c.sel, dom) IN
       \/ /\ TargetOpen(c) /\ r # "!"
          /\ LET h == IF r = "" THEN NoHandle ELSE [page |-> c.tgt.id, el |-> r]
                 d == [Log(c, "query_selector", TRUE) EXCEPT !.elem = h] IN
             Set(t, IF ElementMissing(h)
                    THEN Finish(d, NotFoundText(c.sel))
                    ELSE FillIssue(d, page, "fill.check"))
       \/ \E e \in Failures(c) \cup (IF r = "!" THEN {SyntaxMsg} ELSE {}) :
             Set(t, FillError(Log(c, "query_selector", FALSE), e))
    /\ UNCHANGED <<session, world>>

\* The first page.evaluate completes: lines 347-354 or 376-377.
FillCheck(t) ==
    /\ call[t].pc = "fill.check"
    /\ LET c == call[t] IN
       \/ /\ TargetOpen(c) /\ QuerySelector(c.sel, dom) # "!"
          /\ LET d == [Log(c, "check", TRUE) EXCEPT !.chk = CheckFillable(c.sel, dom)] IN
             Set(t, IF ~d.chk.ok
                    THEN [d EXCEPT !.pc = "fill.scroll"]
                    ELSE FillIssue(d, page, "fill.clear"))
       \/ \E e \in Failures(c) \cup
                   (IF QuerySelector(c.sel, dom) = "!" THEN {SyntaxMsg} ELSE {}) :
             Set(t, FillError(Log(c, "check", FALSE), e))
    /\ UNCHANGED <<session, world>>

\* element.scroll_into_view_if_needed completes: lines 354-355.
FillScroll(t) ==
    /\ call[t].pc = "fill.scroll"
    /\ LET c == call[t] IN
       \/ /\ c.elem.page \in {p.id : p \in open}
          /\ Present(dom, c.elem.el)
          /\ dom' = Scrolled(dom, c.elem)
          /\ Set(t, FillIssue(Log(c, "scroll", TRUE), page, "fill.wait"))
       \/ /\ \E e \in Failures(c) : Set(t, FillError(Log(c, "scroll", FALSE), e))
          /\ UNCHANGED dom
    /\ UNCHANGED <<session, live, open, scripts>>

\* page.wait_for_timeout(500) completes: lines 355-358.
FillWait(t) ==
    /\ call[t].pc = "fill.wait"
    /\ LET c == call[t] IN
       \/ /\ TargetOpen(c)
          /\ Set(t, FillIssue(Log(c, "wait", TRUE), page, "fill.recheck"))
       \/ \E e \in Failures(c) : Set(t, FillError(Log(c, "wait", FALSE), e))
    /\ UNCHANGED <<session, world>>

\* The second page.evaluate completes: lines 370-377.
FillRecheck(t) ==
    /\ call[t].pc = "fill.recheck"
    /\ LET c == call[t] IN
       \/ /\ TargetOpen(c) /\ QuerySelector(c.sel, dom) # "!"
          /\ LET d == Log(c, "recheck", TRUE) IN
             Set(t, IF ~RecheckFillable(c.sel, dom)
                    THEN Finish(d, NotFillableText(c.sel, c.chk.reason))
                    ELSE FillIssue(d, page, "fill.clear"))
       \/ \E e \in Failures(c) \cup
                   (IF QuerySelector(c.sel, dom) = "!" THEN {SyntaxMsg} ELSE {}) :
             Set(t, FillError(Log(c, "recheck", FALSE), e))
    /\ UNCHANGED <<session, world>>

\* The back end's page.fill writes only into a visible, enabled input of a
\* text-like type, textarea or contenteditable element, and raises
\* otherwise (lines 377 and 395 are its call sites).
CanFill(c) ==
    /\ CanClick(c)
    /\ LET el == At(dom, Resolve(c.sel, dom)) IN
       FillVisible(el) /\ IsFillable(el) /\ ~el.disabled

\* The input types whose value the back end's page.fill assigns directly,
\* besides those of the code's list: it raises after the assignment when
\* the element did not take the string as it is.
PickerTypes == {"color", "range"}

MalformedMsg == "Malformed value"

\* page.fill assigns to the element although the code's kind test does not
\* list it.
FillSets(c) ==
    /\ CanClick(c)
    /\ LET el == At(dom, Resolve(c.sel, dom)) IN
       el.tag = "input" /\ el.type \in PickerTypes /\ FillVisible(el) /\ ~el.disabled

\* The value a colour or range input holds after the assignment of a string
\* that is no colour and no number.
Sanitized(el, v) == IF el.type = "color" THEN "#000000" ELSE "50"

\* The errors page.fill raises by itself: at once on an element of a kind
\* that takes no text, after its timeout on one that stays hidden or
\* disabled or that no element matches.
FillRefused(c) ==
    IF CanFill(c) \/ FillSets(c) THEN {}
    ELSE IF CanClick(c) /\ ~IsFillable(At(dom, Resolve(c.sel, dom))) THEN {CannotFillMsg}
    ELSE IF TargetOpen(c) THEN {TimeoutMsg} ELSE {}

\* The document after page.fill or the in-page write put `v` into `n`.
Written(d, n, v) ==
    IF At(d, n).editable
    THEN WithElem(d, n, [At(d, n) EXCEPT !.text = v])
    ELSE WithElem(d, n, [At(d, n) EXCEPT !.value = v])

\* page.fill(selector, "") completes: lines 377-378.
FillClear(t) ==
    /\ call[t].pc = "fill.clear"
    /\ LET c == call[t] IN
       \/ /\ CanFill(c)
          /\ dom' = Written(dom, Resolve(c.sel, dom), "")
          /\ Set(t, FillIssue(Log(c, "clear", TRUE), page, "fill.pause"))
       \/ /\ FillSets(c)
          /\ dom' = Written(dom, Resolve(c.sel, dom),
                            Sanitized(At(dom, Resolve(c.sel, dom)), ""))
          /\ Set(t, FillError(Log(c, "clear", FALSE), MalformedMsg))
       \/ /\ \E e \in Failures(c) \cup FillRefused(c) :
                Set(t, FillError(Log(c, "clear", FALSE), e))
          /\ UNCHANGED dom
    /\ UNCHANGED <<session, live, open, scripts>>

\* page.wait_for_timeout(100) completes: lines 378-395.
FillPause(t) ==
    /\ call[t].pc = "fill.pause"
    /\ LET c == call[t] IN
       \/ /\ TargetOpen(c)
          /\ Set(t, FillIssue(Log(c, "wait", TRUE), page,
                              IF c.chk.editable THEN "fill.settext" ELSE "fill.write"))
       \/ \E e \in Failures(c) : Set(t, FillError(Log(c, "wait", FALSE), e))
    /\ UNCHANGED <<session, world>>

\* The in-page write for contenteditable elements completes: lines 383-398.
FillSetText(t) ==
    /\ call[t].pc = "fill.settext"
    /\ LET c == call[t]
           n == QuerySelector(c.sel, dom) IN
       \/ /\ TargetOpen(c) /\ n # "!"
          /\ dom' = IF n = "" THEN dom
                    ELSE WithElem(dom, n, [At(dom, n) EXCEPT !.text = c.val])
          /\ Set(t, FillIssue(Log(c, "set_text", TRUE), page, "fill.events"))
       \/ /\ \E e \in Failures(c) \cup (IF n = "!" THEN {SyntaxMsg} ELSE {}) :
                Set(t, FillError(Log(c, "set_text", FALSE), e))
          /\ UNCHANGED dom
    /\ UNCHANGED <<session, live, open, scripts>>

\* page.fill(selector, value) completes: lines 395-398.
FillWrite(t) ==
    /\ call[t].pc = "fill.write"
    /\ LET c == call[t] IN
       \/ /\ CanFill(c)
          /\ dom' = Written(dom, Resolve(c.sel, dom), c.val)
          /\ Set(t, FillIssue(Log(c, "fill", TRUE), page, "fill.events"))
       \/ /\ FillSets(c)
          /\ dom' = Written(dom, Resolve(c.sel, dom),
                            Sanitized(At(dom, Resolve(c.sel, dom)), c.val))
          /\ Set(t, FillError(Log(c, "fill", FALSE), MalformedMsg))
       \/ /\ \E e \in Failures(c) \cup FillRefused(c) :
                Set(t, FillError(Log(c, "fill", FALSE), e))
          /\ UNCHANGED dom
    /\ UNCHANGED <<session, live, open, scripts>>

\* The in-page dispatch of input, change and blur completes: lines 398-410.
FillEvents(t) ==
    /\ call[t].pc = "fill.events"
    /\ LET c == call[t] IN
       \/ /\ TargetOpen(c) /\ QuerySelector(c.sel, dom) # "!"
          /\ Set(t, FillIssue(Log(c, "events", TRUE), page, "fill.verify"))
       \/ \E e \in Failures(c) \cup
                   (IF QuerySelector(c.sel, dom) = "!" THEN {SyntaxMsg} ELSE {}) :
             Set(t, FillError(Log(c, "events", FALSE), e))
    /\ UNCHANGED <<session, world>>

ReadBackTextOnly(sel, d) ==
    LET n == QuerySelector(sel, d) IN IF n = "" THEN "null" ELSE At(d, n).text

\* Lines 410-415: `el ? (el.value || el.textContent || el.innerText) : null`.
ReadBack(sel, d) ==
    LET n == QuerySelector(sel, d) IN
    IF n = "" THEN "null"
    ELSE IF At(d, n).value # "" THEN At(d, n).value ELSE At(d, n).text

\* The read-back completes: lines 415-420.
FillVerify(t) ==
    /\ call[t].pc = "fill.verify"
    /\ LET c == call[t] IN
       \/ /\ TargetOpen(c) /\ QuerySelector(c.sel, dom) # "!"
          /\ LET got == ReadBack(c.sel, dom) IN
             Set(t, Finish(Log(c, "read_back", TRUE),
                           IF got = c.val THEN FilledText(c.sel, c.val)
                           ELSE MismatchText(c.sel, c.val, got)))
       \/ \E e \in Failures(c) \cup
                   (IF QuerySelector(c.sel, dom) = "!" THEN {SyntaxMsg} ELSE {}) :
             Set(t, FillError(Log(c, "read_back", FALSE), e))
    /\ UNCHANGED <<session, world>>

Fill(t) ==
    \/ FillBegin(t) \/ FillQuery(t) \/ FillCheck(t) \/ FillScroll(t) \/ FillWait(t)
    \/ FillRecheck(t) \/ FillClear(t) \/ FillPause(t) \/ FillSetText(t)
    \/ FillWrite(t) \/ FillEvents(t) \/ FillVerify(t)

\* ------------------------------------------------ single-primitive tools

\* A tool whose body is one awaited primitive inside try/except: the call
\* record when the tool is called with first argument `a`.
OneStep(opname, a, pc, prefix) ==
    LET c == [IdleCall EXCEPT !.op = opname, !.sel = a] IN
    IF page = NoPage
    THEN Finish(c, Str(prefix \o <<NotStartedMsg>>))
    ELSE [c EXCEPT !.pc = pc, !.tgt = page]

\* extract_text is called: lines 270-272 and 745-748.
TextBegin(t) ==
    /\ call[t].pc = "idle"
    /\ \E s \in Selectors :
          Set(t, OneStep("extract", s, "text.read", <<"Error extracting text from ", s, ": ">>))
    /\ UNCHANGED <<session, world>>

\* page.inner_text completes: lines 272-273.
TextRead(t) ==
    /\ call[t].pc = "text.read"
    /\ LET c == call[t] IN
       \/ /\ CanClick(c)
          /\ Set(t, Finish(Log(c, "inner_text", TRUE),
                           Str(<<At(dom, Resolve(c.sel, dom)).text>>)))
       \/ \E e \in Failures(c) \cup
                   (CASE Resolve(c.sel, dom) = "!" -> {SyntaxMsg}
                      [] Resolve(c.sel, dom) = "" -> {TimeoutMsg}
                      [] OTHER -> {}) :
             Set(t, Finish(Log(c, "inner_text", FALSE),
                           Str(<<"Error extracting text from ", c.sel, ": ", e>>)))
    /\ UNCHANGED <<session, world>>

\* take_screenshot is called: lines 276-278 and 753-756.
ShotBegin(t) ==
    /\ call[t].pc = "idle"
    /\ \E f \in Paths :
          Set(t, OneStep("screenshot", f, "shot.take", <<"Error taking screenshot: ">>))
    /\ UNCHANGED <<session, world>>

\* page.screenshot completes: lines 278-279.
ShotTake(t) ==
    /\ call[t].pc = "shot.take"
    /\ LET c == call[t] IN
       \/ /\ TargetOpen(c)
          /\ Set(t, Finish(Log(c, "screenshot", TRUE), Str(<<"Screenshot saved to ", c.sel>>)))
       \/ \E e \in Failures(c) :
             Set(t, Finish(Log(c, "screenshot", FALSE),
                           Str(<<"Error taking screenshot: ", e>>)))
    /\ UNCHANGED <<session, world>>

\* evaluate_javascript is called: lines 282-284 and 761-764.
EvalBegin(t) ==
    /\ call[t].pc = "idle"
    /\ \E x \in Expressions :
          Set(t, OneStep("evaluate", x, "eval.run", <<"Error evaluating JavaScript: ">>))
    /\ UNCHANGED <<session, world>>

\* page.evaluate completes: lines 284-285.
EvalRun(t) ==
    /\ call[t].pc = "eval.run"
    /\ LET c == call[t]
           name == IF c.sel = DispatchJs THEN "js_dispatch" ELSE "evaluate" IN
       \/ /\ TargetOpen(c)
          /\ Set(t, Finish(Log(c, name, TRUE), Str(<<"json">>)))
       \/ \E e \in Failures(c) :
             Set(t, Finish(Log(c, name, FALSE), Str(<<"Error evaluating JavaScript: ", e>>)))
    /\ UNCHANGED <<session, world>>

\* wait_for_element is called: lines 288-290 and 769-772.
WaitBegin(t) ==
    /\ call[t].pc = "idle"
    /\ \E s \in Selectors :
          Set(t, OneStep("wait_for", s, "wait.for", <<"Error waiting for ", s, ": ">>))
    /\ UNCHANGED <<session, world>>

\* page.wait_for_selector completes: lines 290-291.
WaitFor(t) ==
    /\ call[t].pc = "wait.for"
    /\ LET c == call[t] IN
       \/ /\ CanClick(c)
          /\ Set(t, Finish(Log(c, "wait_for_selector", TRUE),
                           Str(<<"Selector ", c.sel, " appeared.">>)))
       \/ \E e \in Failures(c) \cup
                   (CASE Resolve(c.sel, dom) = "!" -> {SyntaxMsg}
                      [] Resolve(c.sel, dom) = "" -> {TimeoutMsg}
                      [] OTHER -> {}) :
             Set(t, Finish(Log(c, "wait_for_selector", FALSE),
                           Str(<<"Error waiting for ", c.sel, ": ", e>>)))
    /\ UNCHANGED <<session, world>>

Simple(t) ==
    \/ TextBegin(t) \/ TextRead(t) \/ ShotBegin(t) \/ ShotTake(t)
    \/ EvalBegin(t) \/ EvalRun(t) \/ WaitBegin(t) \/ WaitFor(t)

\* ------------------------------------------------------------ enumerators

\* String.prototype.trim on the strings of the input sets: " " is the one
\* that has white space around it.
Trim(str) == IF str = " " THEN "" ELSE str

\* CSS.escape on the strings of the input sets: "." and "/" get a
\* backslash, letters, digits after the first place and hyphens stay.
CssEscape(str) ==
    CASE str = "a.b" -> "a\\.b"
      [] str = "/x" -> "\\/x"
      [] OTHER -> str

\* Line 50: a dataset key (camelCase) back to its attribute name.
Kebab(key) == IF key = "testId" THEN "test-id" ELSE key

\* Lines 59-60: the class prefixes the synthesizer takes for utility
\* classes, on the class names of the input sets.
IsUtility(cl) == cl \in {"btn-primary", "d-flex"}

\* Lines 58-60.
MeaningfulClasses(classes) ==
    SelectSeq(classes, LAMBDA cl : Len(cl) > 2 /\ ~IsUtility(cl))

\* Line 64: `sort((a, b) => b.length - a.length)[0]`, a stable sort: the
\* first of the longest.
LongestFirst(seq) ==
    seq[CHOOSE i \in DOMAIN seq :
            /\ \A j \in DOMAIN seq : Len(seq[j]) <= Len(seq[i])
            /\ \A j \in 1..(i - 1) : Len(seq[j]) < Len(seq[i])]

\* Line 90: a double quote in the text gets a backslash.
EscapeQuotes(str) == IF str = "a\"b" THEN "a\\\"b" ELSE str

\* Each strategy of MCPGetSelector yields its locator, or "" when it does
\* not apply.
ByIdNever(el) == ""

\* Line 43.
ById(el) == IF el.id # "" /\ Trim(el.id) # "" THEN "#" \o CssEscape(el.id) ELSE ""

\* Lines 46-53: only the first data-* attribute is looked at.
ByData(el) ==
    IF el.dataKey # "" /\ el.dataVal # "" /\ Trim(el.dataVal) # ""
    THEN "[data-" \o Kebab(el.dataKey) \o "=\"" \o CssEscape(el.dataVal) \o "\"]"
    ELSE ""

\* Lines 56-69: `classes` is the class attribute split at white space, <<>>
\* for an element without one.
ByClass(el) ==
    IF el.classes = <<>> THEN ""
    ELSE IF MeaningfulClasses(el.classes) # <<>>
         THEN "." \o CssEscape(LongestFirst(MeaningfulClasses(el.classes)))
         ELSE "." \o CssEscape(el.classes[1])

\* Line 72.
ByName(el) ==
    IF el.name # "" /\ Trim(el.name) # "" THEN "[name=\"" \o CssEscape(el.name) \o "\"]" ELSE ""

\* Lines 75-77.
ByType(el) ==
    IF el.tag = "input" /\ el.type # "" THEN "input[type=\"" \o el.type \o "\"]" ELSE ""

\* Lines 80-85.
ByHref(el) ==
    IF el.tag = "a" /\ el.href # "" /\ Trim(el.href) # "" /\ Len(el.href) < 100
    THEN "a[href=\"" \o CssEscape(el.href) \o "\"]"
    ELSE ""

\* Lines 88-93.
ByText(el) ==
    IF Trim(el.text) # "" /\ Len(Trim(el.text)) < 30
    THEN el.tag \o ":has-text(\"" \o EscapeQuotes(Trim(el.text)) \o "\")"
    ELSE ""

\* Lines 96-109: the elements of a document are the children of <body>,
\* which has neither id nor class; the index counts the siblings of the
\* same tag.
ByNthChild(d, n) ==
    LET same == SelectSeq(<<"a", "go">>,
                          LAMBDA m : d[m].tag # None /\ d[m].tag = d[n].tag)
        index == CHOOSE i \in DOMAIN same : same[i] = n
    IN  IF Len(same) > 1
        THEN "body > " \o d[n].tag \o ":nth-child(" \o ToString(index) \o ")"
        ELSE ""

MCPGetSelectorClassFirst(d, n) ==
    IF ByClass(d[n]) # "" THEN ByClass(d[n])
    ELSE IF ById(d[n]) # "" THEN ById(d[n])
    ELSE d[n].tag

\* Lines 41-112: the first strategy that applies, the bare tag otherwise.
MCPGetSelector(d, n) ==
    LET el == d[n]
        tries == <<ById(el), ByData(el), ByClass(el), ByName(el), ByType(el),
                   ByHref(el), ByText(el), ByNthChild(d, n)>>
        hits == SelectSeq(tries, LAMBDA x : x # "")
    IN  IF hits # <<>> THEN hits[1] ELSE el.tag

\* The elements of the document in document order.
DocOrder(d) == SelectSeq(<<"a", "go">>, LAMBDA n : Present(d, n))

\* The locators of the synthesizer's forms that select the element `m` of
\* the document, as the back end's selector engine matches them: by id, by
\* its first data-* attribute, by any of its classes, by name, by input
\* type, by href, by its text, by its place among all children of <body>,
\* and by its tag.
LocatorsOf(d, m) ==
    LET el == d[m]
        place == CHOOSE i \in DOMAIN DocOrder(d) : DocOrder(d)[i] = m
    IN  {"#" \o CssEscape(el.id) : x \in {el.id} \ {""}}
        \cup {"[data-" \o Kebab(el.dataKey) \o "=\"" \o CssEscape(el.dataVal) \o "\"]" :
                  x \in {el.dataKey} \ {""}}
        \cup {"." \o CssEscape(el.classes[i]) : i \in DOMAIN el.classes}
        \cup {"[name=\"" \o CssEscape(el.name) \o "\"]" : x \in {el.name} \ {""}}
        \cup {"input[type=\"" \o el.type \o "\"]" : x \in {el.tag} \cap {"input"}}
        \cup {"a[href=\"" \o CssEscape(el.href) \o "\"]" : x \in {el.href} \ {""}}
        \cup {el.tag \o ":has-text(\"" \o EscapeQuotes(el.text) \o "\")" :
                  x \in {el.text} \ {""}}
        \cup {"body > " \o el.tag \o ":nth-child(" \o ToString(place) \o ")", el.tag}

\* page.query_selector on a synthesized locator: the first element in
\* document order that it selects, "" when there is none.
ResolveFirst(sel, d) ==
    LET hits == SelectSeq(DocOrder(d), LAMBDA m : sel \in LocatorsOf(d, m))
    IN  IF hits = <<>> THEN "" ELSE hits[1]

\* Line 819: the locator the scan records for an element of the document.
DocSelector(d, n) == MCPGetSelector(d, n)

\* A list of at most two descriptors sorted as Array.prototype.sort sorts
\* it with a comparator `rank(a) - rank(b)` (a stable sort); ranks[i] is
\* the rank of seq[i].
SortByKey(seq, ranks) ==
    IF Len(seq) = 2 /\ ranks[2] < ranks[1] THEN <<seq[2], seq[1]>> ELSE seq

\* Two descriptors with the same dedup key: the second is dropped; keys[i]
\* is the uniqueKey of seq[i].
Dedup(seq, keys) ==
    IF Len(seq) = 2 /\ keys[1] = keys[2] THEN <<seq[1]>> ELSE seq

\* Lines 787-797: the candidates of the clickable scan (`handler` stands
\* for the onclick attributes, the roles and the class names of the query).
ClickableCandidate(el) ==
    \/ el.tag \in {"a", "button", "select", "textarea"}
    \/ el.tag = "input" /\ el.type \in {"submit", "button", "reset", "text", "email",
                                          "password", "search", "tel", "url", "number",
                                          "checkbox", "radio"}
    \/ el.handler
    \/ el.editable

\* Lines 806-816: the display text of a clickable element (the texts of the
\* documents are shorter than the 80 characters that get truncated).
ClickableLabel(el) ==
    IF el.text # "" THEN el.text ELSE IF el.value # "" THEN el.value ELSE "[No text]"

TagPriorityLinksFirst(e) ==
    CASE e.tag = "a" -> 0 [] e.tag = "button" -> 1 [] e.tag = "input" -> 2 [] OTHER -> 3

\* Lines 842-847.
TagPriority(e) ==
    CASE e.tag = "button" -> 0 [] e.tag = "a" -> 1 [] e.tag = "input" -> 2 [] OTHER -> 3

\* Lines 787-803: the elements the clickable scan goes on with, in
\* document order.
ClickableKept(d) ==
    SelectSeq(DocOrder(d),
              LAMBDA n : ClickableCandidate(At(d, n)) /\ MCPIsClickable(At(d, n)))

\* Lines 831-837: the descriptor of a clickable element.
ClickableDesc(d, n) ==
    [text |-> ClickableLabel(At(d, n)), selector |-> DocSelector(d, n),
     tag |-> At(d, n).tag, type |-> At(d, n).type]

\* Lines 787-856: the list the clickable scan returns.
ClickableScan(d) ==
    LET keep == ClickableKept(d)
        desc == [i \in 1..Len(keep) |-> ClickableDesc(d, keep[i])]
        uniq == Dedup(desc, [i \in 1..Len(desc) |-> <<desc[i].selector, desc[i].text>>])
    IN  SortByKey(uniq, [i \in 1..Len(uniq) |->
                            TagPriority(uniq[i]) * 100 + Len(uniq[i].text)])

\* Lines 474-483: the candidates of the form scan.
FormCandidate(el) ==
    \/ el.tag = "input" /\ el.type \in FillableTypes \cup {"color", "range", "file"}
    \/ el.tag \in {"textarea", "select"}
    \/ el.editable

\* Lines 493-499: hidden, disabled and off-screen elements are skipped.
FormKept(el) == el.box /\ el.shown /\ ~el.disabled /\ el.inView

\* Lines 580-585: `typePriority[type] || 20`.
TypePriority(e) ==
    LET p == CASE e.type = "email" -> 0 [] e.type = "text" -> 1
               [] e.type = "password" -> 2 [] e.type = "search" -> 3
               [] e.type = "tel" -> 4 [] e.type = "url" -> 5
               [] e.type = "number" -> 6 [] e.type = "date" -> 7
               [] e.type = "time" -> 8 [] e.type = "textarea" -> 9
               [] e.type = "select" -> 10 [] OTHER -> 0
    IN  IF p = 0 THEN 20 ELSE p

\* Lines 474-499: the elements the form scan goes on with, in document
\* order.
FormFields(d) ==
    SelectSeq(DocOrder(d), LAMBDA n : FormCandidate(At(d, n)) /\ FormKept(At(d, n)))

\* Lines 529-531: MCPGetSelector when the page has it, the id, the name or
\* the tag otherwise.
FormSelector(d, n, installed) ==
    IF installed THEN MCPGetSelector(d, n)
    ELSE IF d[n].id # "" THEN "#" \o d[n].id
    ELSE IF d[n].name # "" THEN "[name=\"" \o d[n].name \o "\"]"
    ELSE d[n].tag

\* Lines 538-540: the form context of a field.
FormName(el) ==
    IF ~el.inForm THEN "no-form"
    ELSE IF el.formName # "" THEN el.formName ELSE "unnamed"

\* Lines 551-567: the descriptor of a form field; `text` is its value.
FormDesc(d, n, installed) ==
    [text |-> At(d, n).value, selector |-> FormSelector(d, n, installed),
     tag |-> At(d, n).tag,
     type |-> IF At(d, n).type = "" THEN "text" ELSE At(d, n).type,
     name |-> At(d, n).name, id |-> At(d, n).id,
     required |-> At(d, n).required, form |-> FormName(At(d, n))]

\* The form names of the documents as String.prototype.localeCompare
\* orders them.
Collation == <<"login", "no-form", "signup", "unnamed">>

\* Line 577: the sign of a.localeCompare(b) is that of
\* LocaleRank(a) - LocaleRank(b).
LocaleRank(str) == CHOOSE i \in DOMAIN Collation : Collation[i] = str

\* Lines 571-587: the comparator of the form scan orders by the required
\* flag, then by localeCompare of the form names, then by type priority.
FormSortKey(e) ==
    (IF e.required THEN 0 ELSE 1000) + LocaleRank(e.form) * 100 + TypePriority(e)

\* Lines 472-590: the list the form scan returns.
FormScan(d, installed) ==
    LET keep == FormFields(d)
        desc == [i \in 1..Len(keep) |-> FormDesc(d, keep[i], installed)]
        uniq == Dedup(desc, [i \in 1..Len(desc) |->
                                <<desc[i].selector, desc[i].type, desc[i].name>>])
    IN  SortByKey(uniq, [i \in 1..Len(uniq) |-> FormSortKey(uniq[i])])

\* The dict an enumerator returns for the list `els`: lines 594 and 860.
Listing(els) == Dict({"elements", "count"}, els, Len(els), <<>>)

\* Lines 596 and 862.
ListingError(prefix, msg) == Dict({"error", "elements"}, <<>>, 0, <<prefix, msg>>)

\* Lines 464-469 and 777-782: the session check stands before the try
\* block, so its RuntimeError leaves the tool function.
EnumGuard(c, pg, next, prefix) ==
    IF pg = NoPage
    THEN Finish(c, Raised(NotStartedMsg))
    ELSE [c EXCEPT !.pc = next, !.tgt = pg]

EnumIssue(c, pg, next, prefix) ==
    IF pg = NoPage
    THEN Finish(c, ListingError(prefix, NoPageAttr))
    ELSE [c EXCEPT !.pc = next, !.tgt = pg]

ClickablesPrefix == "Failed to get clickable elements: "
FormsPrefix == "Failed to get form elements: "
InfoPrefix == "Failed to get page info: "

\* get_clickable_elements is called: lines 777-782.
ClickablesBegin(t) ==
    /\ call[t].pc = "idle"
    /\ Set(t, EnumGuard([IdleCall EXCEPT !.op = "clickables"], page,
                        "clickables.wait", ClickablesPrefix))
    /\ UNCHANGED <<session, world>>

\* page.wait_for_timeout(1000) completes: lines 782-785.
ClickablesWait(t) ==
    /\ call[t].pc = "clickables.wait"
    /\ LET c == call[t] IN
       \/ /\ TargetOpen(c)
          /\ Set(t, EnumIssue(Log(c, "wait", TRUE), page, "clickables.scan", ClickablesPrefix))
       \/ \E e \in Failures(c) :
             Set(t, Finish(Log(c, "wait", FALSE), ListingError(ClickablesPrefix, e)))
    /\ UNCHANGED <<session, world>>

\* Line 803: the scan calls window.MCPIsClickable on its first candidate,
\* which raises on a page that lacks the classifier.
ScanRaises(c) ==
    IF scripts[c.tgt.id] = 0
       /\ \E n \in {"a", "go"} : Present(dom, n) /\ ClickableCandidate(At(dom, n))
    THEN {ScriptMissingMsg}
    ELSE {}

\* The scan's page.evaluate completes: lines 785-862.
ClickablesScan(t) ==
    /\ call[t].pc = "clickables.scan"
    /\ LET c == call[t] IN
       \/ /\ TargetOpen(c) /\ ScanRaises(c) = {}
          /\ Set(t, Finish(Log(c, "scan", TRUE), Listing(ClickableScan(dom))))
       \/ \E e \in Failures(c) \cup ScanRaises(c) :
             Set(t, Finish(Log(c, "scan", FALSE), ListingError(ClickablesPrefix, e)))
    /\ UNCHANGED <<session, world>>

\* get_form_elements is called: lines 464-469.
FormsBegin(t) ==
    /\ call[t].pc = "idle"
    /\ Set(t, EnumGuard([IdleCall EXCEPT !.op = "forms"], page, "forms.wait", FormsPrefix))
    /\ UNCHANGED <<session, world>>

\* page.wait_for_timeout(1000) completes: lines 469-472.
FormsWait(t) ==
    /\ call[t].pc = "forms.wait"
    /\ LET c == call[t] IN
       \/ /\ TargetOpen(c)
          /\ Set(t, EnumIssue(Log(c, "wait", TRUE), page, "forms.scan", FormsPrefix))
       \/ \E e \in Failures(c) :
             Set(t, Finish(Log(c, "wait", FALSE), ListingError(FormsPrefix, e)))
    /\ UNCHANGED <<session, world>>

\* The scan's page.evaluate completes: lines 472-596.
FormsScan(t) ==
    /\ call[t].pc = "forms.scan"
    /\ LET c == call[t] IN
       \/ /\ TargetOpen(c)
          /\ Set(t, Finish(Log(c, "scan", TRUE), Listing(FormScan(dom, scripts[c.tgt.id] > 0))))
       \/ \E e \in Failures(c) :
             Set(t, Finish(Log(c, "scan", FALSE), ListingError(FormsPrefix, e)))
    /\ UNCHANGED <<session, world>>

\* Lines 914-920 and 922.
InfoDict ==
    Dict({"title", "url", "ready_state", "elements", "visible_text_preview"}, <<>>, 0, <<>>)
InfoError(msg) == Dict({"error"}, <<>>, 0, <<InfoPrefix, msg>>)

InfoIssue(c, pg, next) ==
    IF pg = NoPage THEN Finish(c, InfoError(NoPageAttr)) ELSE [c EXCEPT !.pc = next, !.tgt = pg]

\* get_page_info is called: lines 867-871.
InfoBegin(t) ==
    /\ call[t].pc = "idle"
    /\ Set(t, EnumGuard([IdleCall EXCEPT !.op = "info"], page, "info.title", InfoPrefix))
    /\ UNCHANGED <<session, world>>

\* One of page.title() and the three page.evaluate calls completes: lines
\* 871-922; after the last the dict is returned.
InfoStep(t) ==
    /\ call[t].pc \in {"info.title", "info.ready", "info.counts", "info.text"}
    /\ LET c == call[t]
           name == c.pc
           next == CASE c.pc = "info.title" -> "info.ready"
                     [] c.pc = "info.ready" -> "info.counts"
                     [] c.pc = "info.counts" -> "info.text"
                     [] OTHER -> "done" IN
       \/ /\ TargetOpen(c)
          /\ Set(t, IF next = "done" THEN Finish(Log(c, name, TRUE), InfoDict)
                    ELSE InfoIssue(Log(c, name, TRUE), page, next))
       \/ \E e \in Failures(c) : Set(t, Finish(Log(c, name, FALSE), InfoError(e)))
    /\ UNCHANGED <<session, world>>

Enumerate(t) ==
    \/ ClickablesBegin(t) \/ ClickablesWait(t) \/ ClickablesScan(t)
    \/ FormsBegin(t) \/ FormsWait(t) \/ FormsScan(t)
    \/ InfoBegin(t) \/ InfoStep(t)

\* The caller takes the result; the task is free for the next call.
Return(t) ==
    /\ call[t].pc = "done"
    /\ Set(t, IdleCall)
    /\ UNCHANGED <<session, world>>

Lifecycle(t) ==
    \/ StartBegin(t) \/ StartEngine(t) \/ StartLaunch(t) \/ StartNewPage(t)
    \/ StartHeaders(t) \/ StartScript(t)
    \/ StopBegin(t) \/ StopPage(t) \/ StopBrowser(t) \/ StopEngine(t)

\* Every step of a tool call.
Work(t) ==
    \/ Lifecycle(t) \/ Goto(t) \/ Click(t) \/ Fill(t) \/ Simple(t) \/ Enumerate(t)

\* The repository's clients await every call_tool before they issue the
\* next (src/minimal_client.py line 934, src/mcp_client.py line 350): one
\* call is in flight at a time, and the next follows its return.
Next == Work(1) \/ Return(1)

Spec == Init /\ [][Next]_vars

\* The back end completes or fails every primitive within its timeout, and
\* the event loop resumes the coroutine that awaits it.
FairSpec == Spec /\ WF_vars(Next)

\* A session between two calls: never started, or started with a document
\* loaded (both are states Spec reaches).
Started ==
    /\ playwright = PW
    /\ browser = 1
    /\ page = [id |-> 1, owner |-> 1]
    /\ live = {1}
    /\ open = {[id |-> 1, owner |-> 1]}
    /\ scripts = [p \in PageIds |-> IF p = 1 THEN 1 ELSE 0]
    /\ dom \in Docs
    /\ call = [t \in Tasks |-> IdleCall]

ConcInit == Init \/ Started

\* The host dispatches every request as a task of its own: calls issued
\* while another is in flight interleave at their awaits.  Each task
\* issues one call.
ConcNext == \E t \in Tasks : Work(t)

ConcSpec == ConcInit /\ [][ConcNext]_vars

\* Elements for the documents the enumerators are run on: all in view and
\* on top, with the attributes the synthesizer and the dedup keys read.
ScanButton(txt) ==
    Elem("button", "submit", FALSE, TRUE, TRUE, TRUE, TRUE, FALSE, FALSE, "", txt)
ScanInput(type, v) ==
    Elem("input", type, FALSE, TRUE, TRUE, TRUE, TRUE, FALSE, FALSE, v, "")
ScanAnchor(txt) ==
    Elem("a", "", FALSE, TRUE, TRUE, TRUE, TRUE, FALSE, FALSE, "", txt)
ScanDiv(txt) ==
    Elem("div", "", FALSE, TRUE, TRUE, TRUE, TRUE, TRUE, FALSE, "", txt)

\* A select element: its `type` property reads "select-one".
ScanSelect ==
    Elem("select", "select-one", FALSE, TRUE, TRUE, TRUE, TRUE, FALSE, FALSE, "", "")

LongText == "a line of text of more than thirty characters"

ScanElems ==
    { NoElem,
      Rich(ScanButton("OK"), "a.b", "", "", <<>>, "", ""),
      Rich(ScanButton("OK"), " ", "", "", <<"card">>, "", ""),
      Rich(ScanButton("OK"), "", "testId", "x", <<"card">>, "", ""),
      Rich(ScanButton("OK"), "go", "testId", "x", <<"card">>, "n", ""),
      Rich(ScanButton("OK"), "", "", "", <<"btn-primary", "x1">>, "", ""),
      Rich(ScanButton("OK"), "", "", "", <<"card">>, "", ""),
      Rich(ScanButton("Cancel"), "", "", "", <<"card">>, "", ""),
      Rich(ScanInput("text", "old"), " ", "", "", <<"card">>, "", ""),
      Rich(ScanInput("text", "old"), "", "", "", <<"card">>, "", ""),
      Rich(ScanInput("text", "new"), "", "", "", <<"card">>, "", ""),
      Rich(ScanInput("email", "old"), "", "", "", <<"card">>, "", ""),
      Rich(ScanInput("text", ""), "", "", "", <<>>, "q", ""),
      ScanInput("text", ""),
      Rich(ScanAnchor("more"), "", "", "", <<>>, "", "/x"),
      InForm(Rich(ScanInput("text", ""), "", "", "", <<>>, "user", ""), "signup"),
      InForm(Rich(ScanInput("password", ""), "", "", "", <<>>, "pw", ""), ""),
      InForm(Rich(ScanInput("text", ""), "", "", "", <<>>, "who", ""), "login"),
      Required(Rich(ScanInput("text", ""), "", "", "", <<>>, "must", "")),
      ScanSelect,
      ScanDiv("Go"),
      ScanDiv(LongText) }

ScanDocs == {[a |-> x, go |-> y] : x, y \in ScanElems}

\* The enumerators, called one after another on a started session whose
\* page shows one of the documents above.
ScanInit ==
    /\ playwright = PW
    /\ browser = 1
    /\ page = [id |-> 1, owner |-> 1]
    /\ live = {1}
    /\ open = {[id |-> 1, owner |-> 1]}
    /\ scripts = [p \in PageIds |-> IF p = 1 THEN 1 ELSE 0]
    /\ dom \in ScanDocs
    /\ call = [t \in Tasks |-> IdleCall]

ScanNext == Enumerate(1) \/ Return(1)

ScanSpec == ScanInit /\ [][ScanNext]_vars

\* ---------------------------------------------------- the text enumerator

\* src/minimal_client.py, get_text_elements_data: the client lists the text
\* of the page with a script it sends through evaluate_javascript.  The
\* documents it is run on are sequences of elements in document order.
MaxTexts == 52

TextCap == 50
MinTextLen == 5
MaxTextLen == 500

\* Lines 183-187 of the client: the tags of the candidates.
TextTags ==
    {"h1", "h2", "h3", "h4", "h5", "h6", "p", "div", "span", "a", "button", "li",
     "td", "th", "article", "section", "main", "aside", "header", "footer", "nav"}

\* Lines 204-207: the element has a box and is neither hidden nor
\* display:none.
TextVisible(el) == el.box /\ el.shown

\* Lines 192-207: the candidates the loop keeps, as their places in the
\* document `d`, from place `i` on, `seen` being the texts met so far.  A
\* text counts as seen before the visibility of its element is looked at.
RECURSIVE TextKeptFrom(_, _, _)
TextKeptFrom(d, i, seen) ==
    IF i > Len(d) THEN <<>>
    ELSE LET text == Trim(d[i].text) IN
         IF d[i].tag \notin TextTags \/ text = "" \/ Len(text) < MinTextLen
            \/ Len(text) > MaxTextLen \/ text \in seen
         THEN TextKeptFrom(d, i + 1, seen)
         ELSE IF ~TextVisible(d[i])
              THEN TextKeptFrom(d, i + 1, seen \cup {text})
              ELSE <<i>> \o TextKeptFrom(d, i + 1, seen \cup {text})

TextKept(d) == TextKeptFrom(d, 1, {})

\* Lines 96-109 of the server on a sequence of siblings.
TextNthChild(d, i) ==
    LET same == {j \in DOMAIN d : d[j].tag = d[i].tag} IN
    IF Cardinality(same) > 1
    THEN "body > " \o d[i].tag \o ":nth-child("
         \o ToString(Cardinality({j \in same : j <= i})) \o ")"
    ELSE ""

\* Lines 210-223: MCPGetSelector when the page has it, the id, the first
\* class or the tag otherwise.
TextSelector(d, i, installed) ==
    LET el == d[i]
        tries == <<ById(el), ByData(el), ByClass(el), ByName(el), ByType(el),
                   ByHref(el), ByText(el), TextNthChild(d, i)>>
        hits == SelectSeq(tries, LAMBDA x : x # "") IN
    IF installed THEN (IF hits # <<>> THEN hits[1] ELSE el.tag)
    ELSE IF el.id # "" THEN "#" \o el.id
    ELSE IF el.classes # <<>> THEN "." \o el.classes[1]
    ELSE el.tag

\* Lines 225-230.
TextDesc(d, i, installed) ==
    [text |-> Trim(d[i].text), selector |-> TextSelector(d, i, installed),
     tag |-> d[i].tag, length |-> Len(Trim(d[i].text))]

\* Lines 235-237: `tagPriority[tag] || 20`.
TextPriority(e) ==
    LET p == CASE e.tag = "h1" -> 0 [] e.tag = "h2" -> 1 [] e.tag = "h3" -> 2
               [] e.tag = "h4" -> 3 [] e.tag = "h5" -> 4 [] e.tag = "h6" -> 5
               [] e.tag = "p" -> 6 [] e.tag = "div" -> 10 [] OTHER -> 0
    IN  IF p = 0 THEN 20 ELSE p

\* Lines 239-240: the comparator orders by priority, then by length.
TextBefore(a, b) ==
    \/ TextPriority(a) < TextPriority(b)
    \/ TextPriority(a) = TextPriority(b) /\ a.length < b.length

\* Line 234: Array.prototype.sort, a stable sort.
RECURSIVE TextInsert(_, _)
TextInsert(e, sorted) ==
    IF sorted = <<>> THEN <<e>>
    ELSE IF TextBefore(e, Head(sorted)) THEN <<e>> \o sorted
    ELSE <<Head(sorted)>> \o TextInsert(e, Tail(sorted))

RECURSIVE TextSort(_)
TextSort(seq) ==
    IF seq = <<>> THEN <<>>
    ELSE TextInsert(seq[Len(seq)], TextSort(SubSeq(seq, 1, Len(seq) - 1)))

\* Line 243: `slice(0, 50)`.
TextSlice(seq) == SubSeq(seq, 1, IF Len(seq) < TextCap THEN Len(seq) ELSE TextCap)

TextScanSliceFirst(d, installed) ==
    LET keep == TextKept(d) IN
    TextSort(TextSlice([i \in 1..Len(keep) |-> TextDesc(d, keep[i], installed)]))

\* Lines 182-244: the list the script returns.
TextScan(d, installed) ==
    LET keep == TextKept(d) IN
    TextSlice(TextSort([i \in 1..Len(keep) |-> TextDesc(d, keep[i], installed)]))

\* The value of a script that returns a list.
Items(els) == [kind |-> "list", text |-> <<>>, elements |-> els]

TextScript == "text elements"

\* Lines 180-181 of the client, 759-762 and 281-283 of the server:
\* evaluate_javascript is called with the script.
TextsBegin(t) ==
    /\ call[t].pc = "idle"
    /\ Set(t, OneStep("texts", TextScript, "texts.run", <<"Error evaluating JavaScript: ">>))
    /\ UNCHANGED <<session, world>>

\* page.evaluate completes: lines 284-285 and 763-764 of the server.
TextsRun(t) ==
    /\ call[t].pc = "texts.run"
    /\ LET c == call[t] IN
       \/ /\ TargetOpen(c)
          /\ Set(t, Finish(Log(c, "evaluate", TRUE),
                           Items(TextScan(dom, scripts[c.tgt.id] > 0))))
       \/ \E e \in Failures(c) :
             Set(t, Finish(Log(c, "evaluate", FALSE),
                           Str(<<"Error evaluating JavaScript: ", e>>)))
    /\ UNCHANGED <<session, world>>

\* An element of a text document; `seen` for one that is displayed.
TextEl(tag, txt, seen) ==
    Elem(tag, "", FALSE, seen, seen, TRUE, TRUE, FALSE, FALSE, "", txt)

RECURSIVE Rep(_, _)
Rep(str, n) ==
    IF n = 0 THEN ""
    ELSE IF n % 2 = 0 THEN LET h == Rep(str, n \div 2) IN h \o h
    ELSE str \o Rep(str, n - 1)

\* The text number `k` of length `n`.
Txt(k, n) == LET head == ToString(k) \o "-" IN head \o Rep("x", n - Len(head))

TextTagCycle == <<"div", "h2", "p", "h1", "span", "h3">>

\* `n` displayed elements with different texts of 5 to 17 characters, the
\* tags taken in turn.
PlainDoc(n, v) ==
    [i \in 1..n |-> TextEl(TextTagCycle[((i + v) % Len(TextTagCycle)) + 1],
                           Txt(i, MinTextLen + ((n - i) % 4) * v), TRUE)]

\* A text too short, one too long, the longest one kept, the same text
\* again, white space only, a hidden element and a displayed one with its
\* text, a tag that is no candidate, the shortest text kept.
OddTexts ==
    << TextEl("p", Txt(101, MinTextLen - 1), TRUE),
       TextEl("p", Txt(102, MaxTextLen + 1), TRUE),
       TextEl("p", Txt(103, MaxTextLen), TRUE),
       TextEl("div", Txt(103, MaxTextLen), TRUE),
       TextEl("p", " ", TRUE),
       TextEl("p", Txt(106, 9), FALSE),
       TextEl("span", Txt(106, 9), TRUE),
       TextEl("label", Txt(108, 9), TRUE),
       TextEl("h1", Txt(109, MinTextLen), TRUE) >>

TextDocs ==
    {PlainDoc(n, v) : n \in 0..MaxTexts, v \in 1..3}
    \cup {OddTexts \o PlainDoc(n, 1) : n \in 0..MaxTexts}

TextInit ==
    /\ playwright = PW
    /\ browser = 1
    /\ page = [id |-> 1, owner |-> 1]
    /\ live = {1}
    /\ open = {[id |-> 1, owner |-> 1]}
    /\ scripts = [p \in PageIds |-> IF p = 1 THEN 1 ELSE 0]
    /\ dom \in TextDocs
    /\ call = [t \in Tasks |-> IdleCall]

TextNext == TextsBegin(1) \/ TextsRun(1) \/ Return(1)

TextSpec == TextInit /\ [][TextNext]_vars

\* ------------------------------------------------------------------ claims

Done(t) == call[t].pc = "done"
\* Primitive `name` completed, with outcome `ok`, in the call `c`.
Had(c, name, ok) == \E i \in DOMAIN c.trace : c.trace[i] = <<name, ok>>
Did(c, name) == Had(c, name, TRUE) \/ Had(c, name, FALSE)
Times(c, name) == Cardinality({i \in DOMAIN c.trace : c.trace[i][1] = name})
Last(c) == c.trace[Len(c.trace)]

\* C1: when the resolver reports that the locator matches no element
\* (query_selector completes and the document holds no match), click and
\* fill return "Element not found: <locator>", and the query is the only
\* primitive of the call: no scroll, no click, no write.
C1_NotFoundNoAction ==
    \A t \in Tasks :
        LET c == call[t] IN
        (/\ c.op \in {"click", "fill"}
         /\ Had(c, "query_selector", TRUE)
         /\ Resolve(c.sel, dom) = "")
        => /\ Done(t)
           /\ c.res = NotFoundText(c.sel)
           /\ c.trace = << <<"query_selector", TRUE>> >>

C1_Witness ==
    /\ call[1].op = "fill" /\ Done(1)
    /\ call[1].res = NotFoundText("#zz")
    /\ dom # BlankDoc

\* C2: every click call returns exactly one result: a click in flight
\* always leads to a finished call holding a string result, a result once
\* produced is not replaced before the caller takes it, and a failed force
\* click is the last primitive of its call.
C2_ClickTerminates ==
    /\ \A t \in Tasks :
          (call[t].op = "click" /\ InFlight(t))
             ~> (Done(t) /\ call[t].res.kind = "str")
    /\ [][\A t \in Tasks : Done(t) => (call'[t].res = call[t].res \/ call'[t] = IdleCall)]_vars
    /\ [](\A t \in Tasks :
             (call[t].op = "click" /\ Had(call[t], "force_click", FALSE))
             => (Done(t) /\ Last(call[t]) = <<"force_click", FALSE>>))

C2_Witness ==
    /\ call[1].op = "click" /\ Done(1)
    /\ Had(call[1], "force_click", FALSE)
    /\ call[1].res = ClickErrorText(call[1].sel, TimeoutMsg)

\* C3 (as claimed): no tool call ends with an exception leaving the tool
\* function, in any session state.
C3_NoExceptionCrosses == \A t \in Tasks : call[t].res.kind # "raise"

\* The shape of click's on-page failure: "Error clicking <locator>: <msg>".
ClickFailureShape(r) ==
    r.kind = "str" /\ Len(r.text) = 4 /\ r.text[1] = "Error clicking " /\ r.text[3] = ": "

\* C4 (as claimed): a click issued while the session has no page (it
\* returns before any primitive ran) is reported in a shape other than the
\* on-page failure shape "Error clicking <locator>: ...".
C4_NotStartedDistinct ==
    \A t \in Tasks :
        (call[t].op = "click" /\ Done(t) /\ call[t].trace = <<>>)
        => ~ClickFailureShape(call[t].res)

\* C5: under sequential start and stop calls, each of which may fail at any
\* primitive, at most one browser is launched and not closed, at most one
\* page is open, a held page belongs to the held browser, and a held
\* browser comes with the engine.
C5_OneBrowserOnePage ==
    /\ Cardinality(live) <= 1
    /\ Cardinality(open) <= 1
    /\ live \subseteq {browser}
    /\ open \subseteq {page}
    /\ page # NoPage => (browser # NoBrowser /\ page.owner = browser)
    /\ browser # NoBrowser => playwright # None

C5_Witness ==
    /\ call[1].op = "start" /\ Done(1)
    /\ call[1].res = Str(<<"Browser started.">>)
    /\ call[1].trace = << <<"new_page", TRUE>>, <<"headers", TRUE>>, <<"init_script", TRUE>> >>
    /\ Cardinality(live) = 1

\* The operations that work on the page.
PageOps == {"goto", "click", "fill", "clickables", "forms", "info", "evaluate"}
\* The call has run a primitive on the page and has not returned.
OnPage(t) == call[t].op \in PageOps /\ InFlight(t) /\ call[t].trace # <<>>

\* C6 (as claimed): page operations are serialized: no call runs a
\* primitive on the page between the first primitive and the return of
\* another call.
C6_Serialized == \A t, u \in Tasks : (t # u) => ~(OnPage(t) /\ OnPage(u))

\* The second clickability check of the call returned false.
StillNotClickable(c) ==
    c.op = "click" /\ Had(c, "recheck", TRUE) /\ ~c.chk.isdict /\ ~c.chk.ok

\* C7 (as claimed): when the element is still not clickable after the
\* scroll and the recheck, a force click is attempted before click returns.
C7_ForceAfterRecheck ==
    \A t \in Tasks :
        (StillNotClickable(call[t]) /\ Done(t)) => Did(call[t], "force_click")

\* C7 (amended): when the element is still not clickable after the scroll
\* and the recheck, click returns "Element not clickable: <locator> - Not
\* clickable" at once, with neither a direct nor a force click.
C7_NotClickableReported ==
    \A t \in Tasks :
        StillNotClickable(call[t])
        => /\ Done(t)
           /\ call[t].res = NotClickableText(call[t].sel, "Not clickable")
           /\ ~Did(call[t], "click")
           /\ ~Did(call[t], "force_click")

C7_Witness ==
    /\ StillNotClickable(call[1]) /\ Done(1)
    /\ Had(call[1], "scroll", TRUE)
    /\ call[1].sel = "#a"

\* C8: when the direct click raises, the force click is issued next and
\* exactly once, and the call returns only after it, with the outcome of
\* that attempt: the force-click message when it succeeded, the error
\* message when it raised.
C8_DirectFailureForcesOnce ==
    \A t \in Tasks :
        LET c == call[t] IN
        (c.op = "click" /\ Had(c, "click", FALSE))
        => \/ /\ c.pc = "click.force"
              /\ Last(c) = <<"click", FALSE>>
           \/ /\ Done(t)
              /\ Times(c, "force_click") = 1
              /\ Last(c)[1] = "force_click"
              /\ c.trace[Len(c.trace) - 1] = <<"click", FALSE>>
              /\ c.res = IF Last(c)[2] THEN ForceClickedText(c.sel)
                         ELSE ClickErrorText(c.sel, c.exc)

C8_Witness ==
    /\ call[1].op = "click" /\ Done(1)
    /\ Had(call[1], "click", FALSE)
    /\ call[1].res = ForceClickedText(call[1].sel)

\* C9 (as claimed): when the force click raises, the event dispatch
\* (pointerdown, mousedown, pointerup, mouseup, click) is attempted before
\* the click is reported as failed.
C9_DispatchAfterForce ==
    \A t \in Tasks :
        (call[t].op = "click" /\ Done(t) /\ Had(call[t], "force_click", FALSE))
        => Did(call[t], "js_dispatch")

\* C9 (amended): when the force click raises, it is the final attempt:
\* click returns "Error clicking <locator>: <the first error>" with no event
\* dispatch; the dispatch is only ever sent as an evaluate call of its own.
C9_ForceIsFinal ==
    \A t \in Tasks :
        LET c == call[t] IN
        /\ (c.op = "click" /\ Had(c, "force_click", FALSE))
           => /\ Done(t)
              /\ Last(c) = <<"force_click", FALSE>>
              /\ c.res = ClickErrorText(c.sel, c.exc)
              /\ ~Did(c, "js_dispatch")
        /\ Did(c, "js_dispatch") => c.op = "evaluate"

C9_Witness ==
    /\ call[1].op = "click" /\ Done(1)
    /\ call[1].trace = << <<"query_selector", TRUE>>, <<"check", TRUE>>,
                          <<"click", FALSE>>, <<"force_click", FALSE>> >>

\* C10: a click reports the strategy that succeeded: "Clicked on" exactly
\* when the direct click was the last primitive and succeeded, the
\* force-click message exactly when the force click succeeded, and the two
\* messages differ.
C10_StrategyReported ==
    \A t \in Tasks :
        LET c == call[t] IN
        (c.op = "click" /\ Done(t))
        => /\ c.res = ClickedText(c.sel)
                <=> (c.trace # <<>> /\ Last(c) = <<"click", TRUE>>)
           /\ c.res = ForceClickedText(c.sel)
                <=> (c.trace # <<>> /\ Last(c) = <<"force_click", TRUE>>)
           /\ ClickedText(c.sel) # ForceClickedText(c.sel)

C10_Witness ==
    /\ call[1].op = "click" /\ Done(1)
    /\ call[1].res = ForceClickedText("#a")
    /\ Had(call[1], "scroll", FALSE)

\* The call ran on a page, and the back end failed none of its primitives.
AllOk(c) == c.trace # <<>> /\ \A i \in DOMAIN c.trace : c.trace[i][2]

\* The locator names a plain text input that is visible and enabled.
OnTextInput(c) ==
    /\ QuerySelector(c.sel, dom) \notin {"", "!"}
    /\ LET el == At(dom, QuerySelector(c.sel, dom)) IN
       el.tag = "input" /\ el.type = "text" /\ FillVisible(el) /\ ~el.disabled

OnCheckbox(c) ==
    /\ QuerySelector(c.sel, dom) \notin {"", "!"}
    /\ LET el == At(dom, QuerySelector(c.sel, dom)) IN
       el.tag = "input" /\ el.type \in {"checkbox", "radio"}
       /\ FillVisible(el) /\ ~el.disabled

\* The result reports a failed fill.
FillFailureShape(r) ==
    r.kind = "str" /\ r.text[1] \in {"Error filling ", "Element not fillable: "}

\* C12 (as claimed): a fill of a visible, enabled checkbox that the back
\* end does not time out sets the checked state from the string and reports
\* the verified state; in particular it does not end in a failure result.
C12_CheckboxFilled ==
    \A t \in Tasks :
        LET c == call[t] IN
        (/\ c.op = "fill" /\ Done(t) /\ OnCheckbox(c)
         /\ Had(c, "query_selector", TRUE)
         /\ c.res # FillErrorText(c.sel, TimeoutMsg))
        => ~FillFailureShape(c.res)

\* C13: when the read-back completes with a value other than the requested
\* one, fill returns "Filled <locator> but value verification failed.
\* Expected: '<v>', Got: '<read>'", which is not a failure result; the
\* read-back is the last primitive, the value was written once, and the
\* written value stays in the element.
C13_MismatchIsWarning ==
    \A t \in Tasks :
        LET c == call[t] IN
        (/\ c.op = "fill" /\ Done(t) /\ Had(c, "read_back", TRUE)
         /\ ReadBack(c.sel, dom) # c.val)
        => /\ c.res = MismatchText(c.sel, c.val, ReadBack(c.sel, dom))
           /\ ~FillFailureShape(c.res)
           /\ Last(c) = <<"read_back", TRUE>>
           /\ Times(c, "fill") + Times(c, "set_text") = 1
           /\ At(dom, QuerySelector(c.sel, dom)).value = c.val

C13_Witness ==
    /\ call[1].op = "fill" /\ Done(1)
    /\ call[1].res = MismatchText("#a", "", "old")
    /\ dom.a.tag = "textarea" /\ dom.a.value = ""

\* The primitives of a navigation whose network-idle wait failed and whose
\* other steps completed, in order.
IdleFailedTrace ==
    << <<"goto", TRUE>>, <<"wait", TRUE>>, <<"networkidle", FALSE>>,
       <<"scroll_down", TRUE>>, <<"wait", TRUE>>, <<"scroll_top", TRUE>> >>

\* C14: a failed network-idle wait does not end the navigation: the call
\* goes on with the scroll down, the wait and the scroll back, in that
\* order, and when these complete it returns "Navigated to <url>"; only a
\* failure of one of those later steps gives the warning result.
C14_IdleFailureIgnored ==
    \A t \in Tasks :
        LET c == call[t] IN
        (c.op = "goto" /\ Had(c, "networkidle", FALSE))
        => /\ \A i \in DOMAIN c.trace : c.trace[i] = IdleFailedTrace[i] \/ (i > 3 /\ i = Len(c.trace))
           /\ Last(c) = <<"networkidle", FALSE>> => c.pc = "goto.down"
           /\ Done(t) => IF Last(c)[2] THEN /\ c.trace = IdleFailedTrace
                                            /\ c.res = NavigatedText(c.sel)
                          ELSE c.res = NavWarningText(TimeoutMsg)

C14_Witness ==
    /\ call[1].op = "goto" /\ Done(1)
    /\ call[1].trace = IdleFailedTrace
    /\ call[1].res = NavigatedText("http://x")

StoppedText == Str(<<"Browser stopped.">>)

\* Every tool that works on the page.
AllPageOps == PageOps \cup {"extract", "screenshot", "wait_for"}

\* The result carries the session-not-started message, as the tail of an
\* error string or as the exception that left the tool.
ReportsNotStarted(r) ==
    r.kind \in {"str", "raise"} /\ r.text # <<>> /\ r.text[Len(r.text)] = NotStartedMsg

\* C15: when stop has returned "Browser stopped." the session holds no
\* page, browser or engine and nothing is left open; a page tool called
\* while the session holds no page reports session-not-started without
\* running a primitive; and a stop is in flight, closing something, only
\* when a handle was held: on a session holding nothing it returns
\* "Browser stopped." at once.
C15_StopTearsDown ==
    \A t \in Tasks :
        LET c == call[t] IN
        /\ (c.op = "stop" /\ Done(t) /\ c.res = StoppedText)
           => /\ page = NoPage /\ browser = NoBrowser /\ playwright = None
              /\ live = {} /\ open = {}
        /\ (c.op \in AllPageOps /\ Done(t) /\ page = NoPage)
           => ReportsNotStarted(c.res) /\ c.trace = <<>>
        /\ (c.op = "stop" /\ c.trace = <<>>)
           => IF page = NoPage /\ browser = NoBrowser /\ playwright = None
              THEN Done(t) /\ c.res = StoppedText
              ELSE InFlight(t)

C15_Witness ==
    /\ call[1].op = "stop" /\ Done(1) /\ call[1].res = StoppedText
    /\ Len(call[1].trace) = 3
    /\ page = NoPage /\ playwright = None

\* C16 (as claimed): whenever no call is in flight, the page the session
\* holds has had the in-page classifier and synthesizer installed exactly
\* once, also after a start that failed past the creation of the page.
C16_ClassifierInstalled ==
    (\A t \in Tasks : ~InFlight(t)) => (page # NoPage => scripts[page.id] = 1)

\* The first check of the call has just completed on an element that the
\* classifier's visibility predicate rejects.
CheckedInvisible(c) ==
    /\ c.trace # <<>> /\ Last(c) = <<"check", TRUE>>
    /\ QuerySelector(c.sel, dom) \notin {"", "!"}
    /\ ~MCPIsVisible(At(dom, QuerySelector(c.sel, dom)))

\* C17 (as claimed): for an element the visibility predicate classifies as
\* not visible, the clickable result click obtains and the fillable result
\* fill obtains are both false.
C17_VisibilityPrecondition ==
    \A t \in Tasks :
        (call[t].op \in {"click", "fill"} /\ CheckedInvisible(call[t])) => ~call[t].chk.ok

\* An enumerator call whose scan completed: its result lists descriptors.
Listed(c) == c.op \in {"clickables", "forms"} /\ Had(c, "scan", TRUE)

\* C18 (as claimed): an element with a non-empty id is always listed under
\* "#" followed by its escaped id.
C18_IdAlwaysFirst ==
    \A t \in Tasks :
        LET c == call[t] IN
        (c.op = "forms" /\ Listed(c))
        => \A i \in DOMAIN c.res.elements :
              c.res.elements[i].id # ""
              => c.res.elements[i].selector = "#" \o CssEscape(c.res.elements[i].id)

\* C18 (amended): an element whose id is not blank (non-empty after
\* trimming white space) is listed under "#" followed by its escaped id,
\* whatever data-*, class or name it has: in the form listing, whose
\* descriptors carry the id, and in the clickable listing.
C18_NonBlankIdFirst ==
    \A t \in Tasks :
        LET c == call[t] IN
        /\ (c.op = "forms" /\ Listed(c))
           => \A i \in DOMAIN c.res.elements :
                 Trim(c.res.elements[i].id) # ""
                 => c.res.elements[i].selector = "#" \o CssEscape(c.res.elements[i].id)
        /\ (c.op = "clickables" /\ Listed(c))
           => \A i \in DOMAIN ClickableKept(dom) :
                 LET el == dom[ClickableKept(dom)[i]] IN
                 Trim(el.id) # ""
                 => \E j \in DOMAIN c.res.elements :
                       /\ c.res.elements[j].selector = "#" \o CssEscape(el.id)
                       /\ c.res.elements[j].text = ClickableLabel(el)

C18_Witness ==
    /\ Listed(call[1]) /\ call[1].op = "clickables"
    /\ dom.a.id = "go" /\ dom.a.dataKey # "" /\ dom.a.classes # <<>>
    /\ dom.go.id = "a.b"
    /\ \E j \in DOMAIN call[1].res.elements : call[1].res.elements[j].selector = "#a\\.b"
    /\ \E j \in DOMAIN call[1].res.elements : call[1].res.elements[j].selector = "#go"

\* The elements an enumerator call qualified, in document order, and the
\* descriptor each gets before the duplicates are dropped.
Qualified(c) == IF c.op = "clickables" THEN ClickableKept(dom) ELSE FormFields(dom)
DescOf(c, n) ==
    IF c.op = "clickables" THEN ClickableDesc(dom, n) ELSE FormDesc(dom, n, TRUE)

\* C19 (as claimed): in the clickable and in the form listing, two
\* qualifying elements with the same locator and different display text
\* are both listed, and two with the same locator and the same display text
\* give one entry.
C19_DedupByLocatorAndText ==
    \A t \in Tasks :
        LET c == call[t]
            q == Qualified(c) IN
        (Listed(c) /\ Len(q) = 2 /\ DescOf(c, q[1]).selector = DescOf(c, q[2]).selector)
        => Len(c.res.elements) = IF DescOf(c, q[1]).text = DescOf(c, q[2]).text THEN 1 ELSE 2

\* C20 (as claimed): an enumerator whose scan completes on a page without
\* a qualifying element returns {elements: [], count: 0} without an error
\* field, and every dict an enumerator returns, on any path, has a count
\* equal to the length of its elements list.
C20_CountOnEveryReturn ==
    \A t \in Tasks :
        LET c == call[t] IN
        /\ (Listed(c) /\ Qualified(c) = <<>>)
           => c.res = Dict({"elements", "count"}, <<>>, 0, <<>>)
        /\ (c.op \in {"clickables", "forms"} /\ Done(t) /\ c.res.kind = "dict")
           => "count" \in c.res.keys /\ c.res.count = Len(c.res.elements)

\* C21 (as claimed): click, fill and extract_text called on a page with a
\* locator the selector engine cannot parse, and not timed out by the back
\* end, return the not-found result for that locator.
C21_MalformedIsNotFound ==
    \A t \in Tasks :
        LET c == call[t] IN
        (/\ c.op \in {"click", "fill", "extract"} /\ Done(t)
         /\ c.sel = Malformed /\ c.trace # <<>>
         /\ c.res.text[Len(c.res.text)] # TimeoutMsg)
        => c.res = NotFoundText(c.sel)

\* The qualifying element q[i] of the call has an entry of its own in the
\* listing: it is the first, or no entry was dropped as a duplicate.
HasEntry(c, i) == i = 1 \/ Len(c.res.elements) = Len(Qualified(c))

\* C22 (as claimed): the locator of every listed descriptor, resolved
\* against the unchanged document, yields the element the descriptor was
\* made from.
C22_LocatorRoundTrip ==
    \A t \in Tasks :
        LET c == call[t]
            q == Qualified(c) IN
        Listed(c)
        => \A i \in DOMAIN q :
              HasEntry(c, i) => ResolveFirst(DescOf(c, q[i]).selector, dom) = q[i]

\* The place of a primitive in click's ladder.
LadderRank(name) ==
    CASE name = "query_selector" -> 1 [] name = "check" -> 2 [] name = "scroll" -> 3
      [] name = "wait" -> 4 [] name = "recheck" -> 5 [] name = "click" -> 6
      [] name = "force_click" -> 7

\* C23: the primitives of a click call run in ladder order (resolve,
\* check, scroll, wait, recheck, direct click, force click), each at most
\* once, whatever the back end does.
C23_LadderForwardOnly ==
    \A t \in Tasks :
        LET c == call[t] IN
        c.op = "click"
        => \A i, j \in DOMAIN c.trace :
              i < j => LadderRank(c.trace[i][1]) < LadderRank(c.trace[j][1])

C23_Witness ==
    /\ call[1].op = "click" /\ Done(1)
    /\ Len(call[1].trace) = 7
    /\ Last(call[1]) = <<"force_click", TRUE>>

\* The strategies in the claimed order, each with its locator for the
\* element or "" when it does not apply; the bare tag always applies.
InOrder(d, n) ==
    <<ById(d[n]), ByData(d[n]), ByClass(d[n]), ByName(d[n]), ByType(d[n]),
      ByHref(d[n]), ByText(d[n]), ByNthChild(d, n), d[n].tag>>

ClickRank(tag) ==
    CASE tag = "button" -> 0 [] tag = "a" -> 1 [] tag = "input" -> 2 [] OTHER -> 3

\* C25: in every clickable list each entry's (tag priority, text length)
\* key is no smaller than that of the entry before it.
C25_ClickablesSorted ==
    \A t \in Tasks :
        LET c == call[t] IN
        (Listed(c) /\ c.op = "clickables")
        => \A i \in DOMAIN c.res.elements :
              i > 1 =>
                 LET a == c.res.elements[i - 1]
                     b == c.res.elements[i] IN
                 \/ ClickRank(a.tag) < ClickRank(b.tag)
                 \/ ClickRank(a.tag) = ClickRank(b.tag) /\ Len(a.text) <= Len(b.text)

C25_Witness ==
    /\ Listed(call[1]) /\ call[1].op = "clickables"
    /\ Len(call[1].res.elements) = 2
    /\ dom.a.tag = "a" /\ dom.go.tag = "button"
    /\ call[1].res.elements[1].tag = "button"

FormsListed(c) == Listed(c) /\ c.op = "forms"

\* The claimed order of the form names: alphabetical, "no-form" last.
ClaimedFormRank(f) == IF f = "no-form" THEN Len(Collation) + 1 ELSE LocaleRank(f)

\* C26: in every form listing a required field never follows a
\* non-required one, and among fields with the same required flag the form
\* names are in alphabetical order with "no-form" after every named form.
C26_RequiredThenForms ==
    \A t \in Tasks :
        LET c == call[t] IN
        FormsListed(c)
        => \A i \in DOMAIN c.res.elements :
              i > 1 =>
                 LET a == c.res.elements[i - 1]
                     b == c.res.elements[i] IN
                 /\ a.required \/ ~b.required
                 /\ a.required = b.required
                    => ClaimedFormRank(a.form) <= ClaimedFormRank(b.form)

\* The place of an input type in the claimed priority order; the `type`
\* of a select element reads "select-one".
ClaimedTypeRank(type) ==
    CASE type = "email" -> 0 [] type = "text" -> 1 [] type = "password" -> 2
      [] type = "search" -> 3 [] type = "tel" -> 4 [] type = "url" -> 5
      [] type = "number" -> 6 [] type = "date" -> 7 [] type = "time" -> 8
      [] type = "textarea" -> 9 [] type \in {"select", "select-one"} -> 10

ClaimedTypes ==
    {"email", "text", "password", "search", "tel", "url", "number", "date", "time",
     "textarea", "select", "select-one"}

\* C27: among the entries of a form listing with the same required flag
\* and the same form, the input types are in the order email, text,
\* password, search, tel, url, number, date, time, textarea, select.
C27_TypePriorityOrder ==
    \A t \in Tasks :
        LET c == call[t] IN
        FormsListed(c)
        => \A i \in DOMAIN c.res.elements :
              i > 1 =>
                 LET a == c.res.elements[i - 1]
                     b == c.res.elements[i] IN
                 (a.required = b.required /\ a.form = b.form
                  /\ a.type \in ClaimedTypes /\ b.type \in ClaimedTypes)
                 => ClaimedTypeRank(a.type) <= ClaimedTypeRank(b.type)

TextsListed(c) == c.op = "texts" /\ c.pc = "done" /\ c.res.kind = "list"

\* The claimed groups of the text listing: the headings by level, then
\* paragraphs and divs, then every other tag.
ClaimedTextRank(tag) ==
    CASE tag = "h1" -> 0 [] tag = "h2" -> 1 [] tag = "h3" -> 2 [] tag = "h4" -> 3
      [] tag = "h5" -> 4 [] tag = "h6" -> 5 [] tag \in {"p", "div"} -> 6 [] OTHER -> 7

\* C28: in every text listing the entries come by heading level h1 to h6,
\* then paragraphs and divs, then the other tags, and entries of one tag
\* by non-decreasing text length.
C28_HeadingsFirst ==
    \A t \in Tasks :
        LET c == call[t] IN
        TextsListed(c)
        => \A i \in DOMAIN c.res.elements :
              i > 1 =>
                 LET a == c.res.elements[i - 1]
                     b == c.res.elements[i] IN
                 /\ ClaimedTextRank(a.tag) <= ClaimedTextRank(b.tag)
                 /\ a.tag = b.tag => a.length <= b.length

\* C29: every text listing has at most 50 entries, each with a text of 5
\* to 500 characters, no text twice; and no entry the loop kept but the
\* listing lacks comes before a listed one in the sort order: the cap cuts
\* the sorted list.
C29_CappedAfterSort ==
    \A t \in Tasks :
        LET c == call[t]
            els == c.res.elements
            keep == TextKept(dom)
            left == {k \in DOMAIN keep :
                        \A j \in DOMAIN els : els[j].text # Trim(dom[keep[k]].text)} IN
        TextsListed(c)
        => /\ Len(els) <= TextCap
           /\ \A i \in DOMAIN els :
                 /\ els[i].length = Len(els[i].text)
                 /\ els[i].length >= MinTextLen /\ els[i].length <= MaxTextLen
                 /\ \A j \in DOMAIN els : els[i].text = els[j].text => i = j
           /\ Len(els) + Cardinality(left) = Len(keep)
           /\ left # {} => Len(els) = TextCap
           /\ \A k \in left, j \in DOMAIN els :
                 ~TextBefore(TextDesc(dom, keep[k], TRUE), els[j])

C29_Witness ==
    /\ TextsListed(call[1])
    /\ Len(dom) > TextCap
    /\ Len(call[1].res.elements) = TextCap
    /\ \E j \in DOMAIN call[1].res.elements :
          call[1].res.elements[j].text = Trim(dom[Len(dom)].text)
    /\ \E i \in 1..TextCap :
          \A j \in DOMAIN call[1].res.elements :
             call[1].res.elements[j].text # Trim(dom[i].text)

OnlyStarts == \A t \in Tasks : call[t].op \in {"none", "start"}

\* C30: while start calls are the only calls, overlapping or not, at most
\* one of them launches a browser and at most one creates a page, at most
\* one browser and one page exist, and every live browser is the one the
\* session holds.
C30_SingleLaunch ==
    OnlyStarts
    => /\ Cardinality({t \in Tasks : Had(call[t], "launch", TRUE)}) <= 1
       /\ Cardinality({t \in Tasks : Had(call[t], "new_page", TRUE)}) <= 1
       /\ Cardinality(live) <= 1
       /\ Cardinality(open) <= 1
       /\ \A b \in live : b = browser

FullyStarted == playwright # None /\ browser \in live /\ page \in open
FullyStopped == playwright = None /\ browser = NoBrowser /\ page = NoPage

\* The call returned without a back-end timeout in its result.
NoTimeout(c) == c.res.text = <<>> \/ c.res.text[Len(c.res.text)] # TimeoutMsg

\* C31: when a start call and a stop call have both returned, whatever
\* their interleaving, and the back end failed neither of its own accord,
\* the session is fully started or fully stopped.
C31_StartStopAllOrNothing ==
    \A s, t \in Tasks :
        (/\ call[s].op = "start" /\ Done(s) /\ NoTimeout(call[s])
         /\ call[t].op = "stop" /\ Done(t) /\ call[t].res = Str(<<"Browser stopped.">>))
        => FullyStarted \/ FullyStopped

\* A stop call is in flight or has returned.
Stopping == \E t \in Tasks : call[t].op = "stop"

\* C32: with a stop call interleaved, a page operation that got past its
\* session check never raises to its caller and always has a next step
\* until it has returned a string or a dict; and the stop call, when the
\* back end does not fail it and no start call runs beside it, leaves the
\* session without handles.
C32_StopBesidePageOp ==
    Stopping
    => \A t \in Tasks :
          LET c == call[t] IN
          /\ (c.op \in PageOps /\ (c.tgt # NoPage \/ c.trace # <<>>))
             => /\ c.res.kind # "raise"
                /\ Done(t) => c.res.kind \in {"str", "dict"}
                /\ InFlight(t) => ENABLED Work(t)
          /\ (c.op = "stop" /\ Done(t) /\ NoTimeout(c)
              /\ \A u \in Tasks : call[u].op # "start")
             => FullyStopped

C32_Witness ==
    /\ call[1].op = "click" /\ Done(1)
    /\ Had(call[1], "query_selector", TRUE)
    /\ call[1].res = ClickErrorText(call[1].sel, ClosedMsg)
    /\ call[2].op = "stop" /\ Done(2)
    /\ FullyStopped

\* C33: when a stop call has returned, with whatever result, the session
\* holds no page, no browser and no engine handle.
C33_StopAlwaysClears ==
    \A t \in Tasks : (call[t].op = "stop" /\ Done(t)) => FullyStopped

\* C34: a click call runs the direct or the force click only after its
\* query_selector has returned an element.
C34_ClickOnlyResolved ==
    \A t \in Tasks :
        LET c == call[t] IN
        (c.op = "click" /\ (Did(c, "click") \/ Did(c, "force_click")))
        => Had(c, "query_selector", TRUE) /\ c.elem # NoHandle

\* C36: a fill call that returns an error, "not fillable" or "not found"
\* leaves the value and the content of its target as they were when the
\* call began.
C36_FailedFillKeepsValue ==
    \A t \in Tasks :
        LET c == call[t] IN
        (/\ c.op = "fill" /\ Done(t)
         /\ FillFailureShape(c.res) \/ c.res = NotFoundText(c.sel))
        => Held(c.sel, dom) = c.old

\* C35: a fill call changes the value or the content of its target only
\* when the target is of a kind the code's kind test lists, is visible and
\* is neither disabled nor read-only.
C35_WritesOnlyFillable ==
    \A t \in Tasks :
        LET c == call[t]
            n == Resolve(c.sel, dom) IN
        (c.op = "fill" /\ Held(c.sel, dom) # c.old)
        => /\ n \notin {"", "!"}
           /\ IsFillable(At(dom, n)) /\ FillVisible(At(dom, n)) /\ ~At(dom, n).disabled

\* The result says that the navigation was performed or completed.
SaysNavigated(r) ==
    r.kind = "str" /\ r.text[1] \in {"Navigated to ", "Navigation completed with warnings: "}

\* C37: a navigate call reports that the navigation happened or completed
\* only if its page.goto succeeded.
C37_NavigatedOnlyIfLoaded ==
    \A t \in Tasks :
        LET c == call[t] IN
        (c.op = "goto" /\ Done(t) /\ SaysNavigated(c.res)) => Had(c, "goto", TRUE)

\* The clickable listing of the present document has an entry with the
\* locator `sel`.
ListsLocator(sel) ==
    \E i \in DOMAIN ClickableScan(dom) : ClickableScan(dom)[i].selector = sel

\* C38: a click on a locator that the clickable listing gives for the
\* present document, on a page with the init script and without a back-end
\* failure, resolves, passes the check and ends with the direct click.
C38_ListedLocatorClicks ==
    \A t \in Tasks :
        LET c == call[t] IN
        (/\ c.op = "click" /\ Done(t) /\ c.tgt # NoPage
         /\ scripts[c.tgt.id] > 0
         /\ ListsLocator(c.sel)
         /\ c.exc \notin BackendErrs \cup {ClosedMsg})
        => /\ c.res = ClickedText(c.sel)
           /\ Had(c, "check", TRUE)
           /\ ~Did(c, "force_click")

\* C39: in a text listing that the cap did not cut, the text of every
\* displayed candidate of 5 to 500 characters is listed, wherever hidden
\* elements with the same text stand in the document.
C39_HiddenNeverSuppresses ==
    \A t \in Tasks :
        LET c == call[t]
            els == c.res.elements IN
        (TextsListed(c) /\ Len(els) < TextCap)
        => \A i \in DOMAIN dom :
              (/\ dom[i].tag \in TextTags /\ TextVisible(dom[i])
               /\ Len(Trim(dom[i].text)) >= MinTextLen
               /\ Len(Trim(dom[i].text)) <= MaxTextLen)
              => \E j \in DOMAIN els : els[j].text = Trim(dom[i].text)
====
